---- MODULE Spec2Model ----
(***************************************************************************)
(* A model of the donut-tracker front end (src/public/assets/js/app.js):   *)
(* the auction size estimator, the leaderboard rank computation, the local *)
(* price history store, the list views and the rollup batches.             *)
(*                                                                         *)
(* Each page of the site runs one init function (the DOMContentLoaded      *)
(* switch, app.js:3687-3709); the variable `task` names the handler        *)
(* instance a behaviour follows.  The handlers share no state with each    *)
(* other except the price history store (localStorage).                    *)
(***************************************************************************)
EXTENDS Integers, Sequences, FiniteSets, TLC

VARIABLES
    task,           \* the handler instance this behaviour follows
    \* ---- the upstream auction resource and the network (environment)
    trueLast,       \* T: page p of the auction listing is non-empty iff p <= T
    trueCount,      \* C: number of items on page T
    failing,        \* the requests of this run that fail: <<phase, index>>
    failKind,       \* how they fail: "neterr" | "badjson" | "errbody"
    \* ---- loadAuctionCount (app.js:3058-3139)
    pc,             \* position of the async function
    pending,        \* indices of the current batch whose promise has not settled
    results,        \* Promise.all slots of the coarse batch: [page, valid]
    rejected,       \* a promise of the current batch rejected
    low, high, mid,
    iter,           \* number of binary-search probes issued so far
    finalChecks,    \* pages of the fine batch
    finalResults,   \* Promise.all slots of the fine batch: [page, count]
    settled,        \* number of promises of the current batch that have settled
    invalidPages,   \* pages whose coarse or binary probe errored or came back empty
    lastValidPage, lastPageItems,
    totalAuctions,  \* the estimate handed to the element
    auctionsText,   \* what the element shows: "" | "count" | "N/A"
    \* ---- the upstream leaderboard and renderLeaderboardTable (app.js:899-966)
    boardSize,      \* number of ranked players the upstream holds
    boardPage,      \* last leaderboard page that was rendered
    tableView,      \* "none" | "empty" | "cards": what the last render returned
    tableRows,      \* the cards of the last render: [player, rank]
    allRows,        \* the cards of pages 1..boardPage, in page order
    expPage,        \* the page the expanded leaderboard rendered last (0: none)
    expPodium,      \* its podium cards: [player, rank]
    expList,        \* the rows of its rankings list: [player, rank]
    expNone,        \* 'No players found' is shown
    expAll,         \* the cards and rows of pages 1..expPage, in page order
    \* ---- the price history store (localStorage) and createPriceCard
    now,            \* Date.now(), in seconds
    store,          \* localStorage value of key price_history_<itemId>
    storageMode,    \* "ok" | "quota" (setItem throws) | "denied" (any access throws)
    calls,          \* createPriceCard calls made so far
    ticks,          \* clock advances made so far
    lastOp,         \* "none" | "card" | "read": the last call
    lastKey,        \* the itemId of the last call
    callNow,        \* Date.now() of the latest storePriceHistory call
    thrown,         \* the last call raised to its caller
    lastRead,       \* the series the last getPriceHistory returned
    card,           \* the last price card: [rendered, spark, trend]
    \* ---- the list views: auction, transactions, expanded leaderboard
    listPage,       \* currentPage of the view
    viewPc,         \* "idle" | "loading": a load is awaiting its response
    loads,          \* loads started so far
    container,      \* what the container shows
    shownCount,     \* number of list entries the container shows
    viewResp,       \* the response the last finished load received
    pagerPage,      \* page the pagination buttons were rendered for (0: none)
    pagerMore,      \* the next-page button is enabled
    fetches,        \* number of network requests the view has issued
    \* ---- the leaderboard rollups: calculateAggregateStatsParallel, initLeaderboardsPage
    catResp,        \* what /leaderboard?type=<category>&page=1 answers, per category
    statsPc,        \* "start" | "fetching" | "done" | "aborted"
    statsPending,   \* indices of the categories whose fetch has not settled
    statsSettled,   \* number of fetches that have settled
    statsRejected,  \* a promise of the batch rejected
    responses,      \* Promise.all slots / leaderboardData: [hasResult, values]
    totals,         \* totals[cat]: [has, value]
    statText,       \* what the page shows per category: [shown, value, unit]
    \* ---- the prices page
    totalItems,     \* number of items of the upstream price catalogue
    upstreamSize,   \* number of items of a full upstream price page
    pageFail,       \* per upstream page: "ok" | "neterr" | "errbody"
    pricesPc,       \* "start" | "loading" | "ready" (handlers installed)
    bgPc,           \* loadRemainingPrices: "idle" | "fetching" | "merged" | "aborted"
    bgPending,      \* background pages whose request has not settled
    bgSettled,      \* number of background requests that have settled
    bgRejected,     \* a promise of the background batch rejected
    bgResults,      \* Promise.all slots of the background batch
    allPrices,      \* global allPrices (catalogue items, by number)
    filteredPrices, \* global filteredPrices
    pricesCurrentPage,
    searchInput,    \* value of #price-search-input
    sortSelect,     \* value of #price-sort-select
    searchTimer,    \* the debounce timer of the search box is armed
    pricesView,     \* #prices-container: [kind, items]
    pricesPager,    \* #prices-pagination: [shown, page, total]
    userOps,        \* number of user inputs so far
    handlerThrew,   \* the last event handler ended with an uncaught exception
    \* ---- all batches
    outOfOrder,     \* some request of a batch settled before one issued earlier
    \* ---- makeApiRequest (api/config.js)
    reqPc,          \* "start" | "fetching" | "reading" | "done"
    elapsed,        \* ms since the fetch was issued
    timer,          \* the abort timer: "idle" | "armed" | "cleared" | "fired"
    reqResult,      \* what the call resolved with: [success, status, message]
    reqFetches,     \* number of upstream requests issued
    \* ---- initAuctionPage (app.js:2168-2255)
    currentPage,    \* the closure's currentPage
    currentSearch,  \* the closure's currentSearch
    currentSort,    \* the closure's currentSort
    issued,         \* number of loadAuction() calls so far
    inFlight,       \* the fetchAuction requests not yet answered: [seq, page, search, sort]
    auctionView,    \* the container: [kind, seq, page, search, sort]
    pagination      \* the pagination container: [shown, page, more]

estVars == <<trueLast, trueCount, failing, failKind, pc, pending, results,
             rejected, low, high, mid, iter, finalChecks, finalResults,
             settled, invalidPages, lastValidPage, lastPageItems,
             totalAuctions, auctionsText>>

boardVars == <<boardSize, boardPage, tableView, tableRows, allRows,
               expPage, expPodium, expList, expNone, expAll>>

histVars == <<now, store, storageMode, calls, ticks, lastOp, lastKey, callNow,
              thrown, lastRead, card>>

viewVars == <<listPage, viewPc, loads, container, shownCount, viewResp, pagerPage,
              pagerMore, fetches>>

statsVars == <<catResp, statsPc, statsPending, statsSettled, statsRejected,
               responses, totals, statText>>

priceVars == <<totalItems, upstreamSize, pageFail, pricesPc, bgPc, bgPending, bgSettled, bgRejected,
               bgResults, allPrices, filteredPrices, pricesCurrentPage, searchInput,
               sortSelect, searchTimer, pricesView, pricesPager, userOps,
               handlerThrew>>

reqVars == <<reqPc, elapsed, timer, reqResult, reqFetches>>

aucVars == <<currentPage, currentSearch, currentSort, issued, inFlight, auctionView,
             pagination>>

vars == <<task, estVars, boardVars, histVars, viewVars, statsVars, priceVars,
          outOfOrder, reqVars, aucVars>>

\* what the actions of one handler leave alone
notCountVars == <<boardVars, histVars, viewVars, statsVars, priceVars, reqVars, aucVars>>
notBoardVars == <<estVars, histVars, viewVars, statsVars, priceVars, outOfOrder, reqVars, aucVars>>
notHistVars == <<estVars, boardVars, viewVars, statsVars, priceVars, outOfOrder, reqVars, aucVars>>
notViewVars == <<estVars, boardVars, histVars, statsVars, priceVars, outOfOrder, reqVars, aucVars>>
notStatsVars == <<estVars, boardVars, histVars, viewVars, priceVars, reqVars, aucVars>>
notPriceVars == <<estVars, boardVars, viewVars, statsVars, now, calls, ticks, lastOp,
                  lastKey, callNow, thrown, lastRead, card, reqVars, aucVars>>

----------------------------------------------------------------------------
(* Bounds of the model *)

MaxIssued == 3
MaxAuctionPage == 2

\* largest true last page of the simulated auction resource
MaxT == 2600
\* failure plans name at most this many binary-search iterations
MaxFailIter == 4
\* at most this many requests of one run fail
MaxFail == 1

\* largest number of ranked players of the simulated leaderboard
MaxPlayers == 140
\* leaderboard pages rendered in one behaviour
MaxBoardPages == 4

\* longest series found in the store when the page opens
MaxStored == 101
\* the short series found in the store have up to this many points
MaxShort == 3
\* createPriceCard calls in one behaviour
MaxCalls == 2
\* clock advances in one behaviour
MaxTicks == 1

\* loads of a list view in one behaviour
MaxLoads == 2
\* largest page number a list view is opened at
MaxListPage == 2

\* at most this many categories of one rollup answer abnormally
MaxCatFail == 1
\* the largest upstream price catalogue
MaxCatalogue == 61
\* at most this many upstream price pages answer abnormally
MaxPageFail == 1
\* the user makes at most this many inputs on the prices page
MaxUserOps == 1

(* Program constants *)

REQUEST_TIMEOUT == 30000

ExtrapolationFactor == 50
pricesPerPage == 30
CapitalShift == 100
MinecraftPrefix == 50
TopCount == 5
MsPerHour == 3600000
HoursPerDay == 24
DaysPerYear == 365

HasMoreThreshold == 20
PodiumSize == 3

MAX_POINTS == 100

ITEMS_PER_PAGE == 45
ITEMS_PER_PAGE_OFFSET == 44

itemsPerPage == 44
checkPages == <<100, 500, 1000, 1500, 2000, 2500>>
DefaultLow == 1
DefaultHigh == 100
BinaryGap == 50
FineSpan == 60
FineSlack == 10
FineStep == 10

----------------------------------------------------------------------------
(* Helpers *)

Min(a, b) == IF a <= b THEN a ELSE b
Max(a, b) == IF a >= b THEN a ELSE b
Range(s) == {s[i] : i \in DOMAIN s}

----------------------------------------------------------------------------
(* The upstream auction resource: no total count, pages 1..T non-empty *)

\* number of items the upstream holds on a page
PageItems(page) ==
    IF page < 1 \/ page > trueLast THEN 0
    ELSE IF page = trueLast THEN trueCount ELSE itemsPerPage

TrueTotal == IF trueLast = 0 THEN 0 ELSE (trueLast - 1) * itemsPerPage + trueCount

\* what fetch(`/auction?page=`) of request id yields
Fetch(id, page) ==
    IF id \in failing THEN [kind |-> failKind, n |-> 0]
    ELSE [kind |-> "ok", n |-> PageItems(page)]

\* data?.result?.length of a parsed body (0 stands for undefined: both fail "> 0"
\* and both are falsy in "|| 0")
ResultLength(resp) == IF resp.kind = "ok" THEN resp.n ELSE 0

\* fetch() or res.json() rejects
Throws(resp) == resp.kind \in {"neterr", "badjson"}

\* the probe errored (transport, unparseable body, error body) or the page is empty
ProbeFailed(resp) == Throws(resp) \/ ResultLength(resp) = 0

----------------------------------------------------------------------------
(* loadAuctionCount, app.js:3058-3139 (loadAuctionCountAnimated, app.js:2654-2738,
   is the same code up to the call that displays the number) *)

\* mutant: the values are collected in the order of arrival
PromiseAllSlotArrival(index, order) == order

\* Promise.all stores the value of the i-th promise in slot i, whatever the
\* position `order` at which it settled
PromiseAllSlot(index, order) == index

\* mutant: no per-probe catch, a rejected fetch/json rejects the probe's promise
ProbeRejectsOnThrow(resp) == resp.kind \in {"neterr", "badjson"}

\* the per-probe .catch turns a rejected fetch/json into a value: the promise
\* handed to Promise.all never rejects
ProbeRejects(resp) == FALSE

\* mutant: the catch reports the page as valid (an error read as "collection continues")
CoarseProbeErrorAsValid(page, resp) ==
    [page |-> page, valid |-> IF Throws(resp) THEN TRUE ELSE ResultLength(resp) > 0]

\* .then(data => ({ page, valid: data?.result?.length > 0 })).catch(() => ({ page, valid: false }))
CoarseProbe(page, resp) ==
    [page |-> page, valid |-> IF Throws(resp) THEN FALSE ELSE ResultLength(resp) > 0]

\* .then(data => ({ page, count: data?.result?.length || 0 })).catch(() => ({ page, count: 0 }))
FineProbe(page, resp) ==
    [page |-> page, count |-> IF Throws(resp) THEN 0 ELSE ResultLength(resp)]

\* the binary-search probe: data?.result?.length > 0, and catch (e) counts as empty
MidValid(resp) == IF Throws(resp) THEN FALSE ELSE ResultLength(resp) > 0

\* for (const result of results) { if (result.valid) low = page; else { high = page; break; } }
RECURSIVE CoarseScan(_, _, _, _)
CoarseScan(res, i, lo, hi) ==
    IF i > Len(res) THEN [low |-> lo, high |-> hi]
    ELSE IF res[i].valid THEN CoarseScan(res, i + 1, res[i].page, hi)
    ELSE [low |-> lo, high |-> res[i].page]

\* while (low + 50 < high)
LoopCond(lo, hi) == lo + BinaryGap < hi

MidpointAtLow(lo, hi) == lo

\* Math.floor((low + high) / 2)
Midpoint(lo, hi) == (lo + hi) \div 2

\* for (let p = low; p <= Math.min(low + 60, high + 10); p += 10) finalChecks.push(p)
FineChecks(lo, hi) ==
    LET limit == Min(lo + FineSpan, hi + FineSlack)
        n == IF limit < lo THEN 0 ELSE (limit - lo) \div FineStep + 1
    IN  [k \in 1..n |-> lo + FineStep * (k - 1)]

\* for (const result of finalResults) { if (result.count > 0) { lastValidPage = ...; lastPageItems = ... } }
RECURSIVE FineScan(_, _, _, _)
FineScan(res, i, page, items) ==
    IF i > Len(res) THEN [page |-> page, items |-> items]
    ELSE IF res[i].count > 0 THEN FineScan(res, i + 1, res[i].page, res[i].count)
    ELSE FineScan(res, i + 1, page, items)

\* (lastValidPage - 1) * itemsPerPage + lastPageItems
Estimate(page, items) == (page - 1) * itemsPerPage + items

AwaitSkipped(pend, rej) == TRUE

\* await Promise.all(promises): the function resumes when every promise of the
\* batch has settled, or as soon as one has rejected
BatchSettled(pend, rej) == pend = {} \/ rej

\* the while loop's head with low, high just assigned: either the next midpoint
\* is requested, or the fine batch is issued
EnterLoop(lo, hi) ==
    /\ low' = lo
    /\ high' = hi
    /\ IF LoopCond(lo, hi)
       THEN /\ mid' = Midpoint(lo, hi)
            /\ iter' = iter + 1
            /\ pc' = "binary"
            /\ UNCHANGED <<pending, finalChecks, finalResults>>
       ELSE /\ finalChecks' = FineChecks(lo, hi)
            /\ finalResults' = [k \in DOMAIN FineChecks(lo, hi) |->
                                   [page |-> FineChecks(lo, hi)[k], count |-> 0]]
            /\ pending' = DOMAIN FineChecks(lo, hi)
            /\ pc' = "fine"
            /\ UNCHANGED <<mid, iter>>
    /\ settled' = 0

world == <<trueLast, trueCount, failing, failKind>>

\* lines 3066-3075: the six coarse probes are issued at once
StartCount ==
    /\ task = "loadAuctionCount"
    /\ pc = "start"
    /\ pc' = "coarse"
    /\ pending' = DOMAIN checkPages
    /\ results' = [i \in DOMAIN checkPages |-> [page |-> checkPages[i], valid |-> FALSE]]
    /\ settled' = 0
    /\ UNCHANGED <<task, notCountVars, outOfOrder, world, rejected, low, high, mid, iter, finalChecks,
                   finalResults, invalidPages, lastValidPage, lastPageItems,
                   totalAuctions, auctionsText>>

\* one coarse probe settles (in any order)
SettleCoarse ==
    /\ task = "loadAuctionCount"
    /\ pc = "coarse"
    /\ ~rejected
    /\ \E i \in pending :
         LET page == checkPages[i]
             resp == Fetch(<<"coarse", i>>, page)
             r == CoarseProbe(page, resp)
         IN  /\ pending' = pending \ {i}
             /\ outOfOrder' = (outOfOrder \/ \E j \in pending : j < i)
             /\ settled' = settled + 1
             /\ rejected' = ProbeRejects(resp)
             /\ results' = [results EXCEPT ![PromiseAllSlot(i, settled + 1)] = r]
             /\ invalidPages' = IF ProbeFailed(resp) THEN invalidPages \cup {page}
                                ELSE invalidPages
    /\ UNCHANGED <<task, notCountVars, world, pc, low, high, mid, iter, finalChecks, finalResults,
                   lastValidPage, lastPageItems, totalAuctions, auctionsText>>

\* lines 3068-3105: await Promise.all resumes (or throws into the catch of line
\* 3134 as soon as one promise rejected), low/high are read off the results and
\* the while loop is entered
AwaitCoarse ==
    /\ task = "loadAuctionCount"
    /\ pc = "coarse"
    /\ BatchSettled(pending, rejected)
    /\ IF rejected
       THEN /\ pc' = "failed"
            /\ auctionsText' = "N/A"
            /\ UNCHANGED <<pending, low, high, mid, iter, finalChecks, finalResults,
                           settled>>
       ELSE /\ EnterLoop(CoarseScan(results, 1, DefaultLow, DefaultHigh).low,
                         CoarseScan(results, 1, DefaultLow, DefaultHigh).high)
            /\ UNCHANGED auctionsText
    /\ UNCHANGED <<task, notCountVars, outOfOrder, world, results, rejected, invalidPages, lastValidPage,
                   lastPageItems, totalAuctions>>

\* lines 3092-3104: the response of the midpoint probe arrives
BinaryStep ==
    /\ task = "loadAuctionCount"
    /\ pc = "binary"
    /\ LET resp == Fetch(<<"binary", iter>>, mid)
       IN  /\ IF MidValid(resp) THEN EnterLoop(mid, high) ELSE EnterLoop(low, mid)
           /\ invalidPages' = IF ProbeFailed(resp) THEN invalidPages \cup {mid}
                              ELSE invalidPages
    /\ UNCHANGED <<task, notCountVars, outOfOrder, world, results, rejected, lastValidPage, lastPageItems,
                   totalAuctions, auctionsText>>

\* one fine probe settles (in any order)
SettleFine ==
    /\ task = "loadAuctionCount"
    /\ pc = "fine"
    /\ ~rejected
    /\ \E i \in pending :
         LET page == finalChecks[i]
             resp == Fetch(<<"fine", i>>, page)
         IN  /\ pending' = pending \ {i}
             /\ outOfOrder' = (outOfOrder \/ \E j \in pending : j < i)
             /\ settled' = settled + 1
             /\ rejected' = ProbeRejects(resp)
             /\ finalResults' = [finalResults EXCEPT
                                   ![PromiseAllSlot(i, settled + 1)] = FineProbe(page, resp)]
    /\ UNCHANGED <<task, notCountVars, world, pc, results, low, high, mid, iter, finalChecks,
                   invalidPages, lastValidPage, lastPageItems, totalAuctions,
                   auctionsText>>

\* lines 3113-3133: await Promise.all resumes, the last page with results is
\* picked and the total is displayed
AwaitFine ==
    /\ task = "loadAuctionCount"
    /\ pc = "fine"
    /\ BatchSettled(pending, rejected)
    /\ IF rejected
       THEN /\ pc' = "failed"
            /\ auctionsText' = "N/A"
            /\ UNCHANGED <<lastValidPage, lastPageItems, totalAuctions>>
       ELSE LET last == FineScan(finalResults, 1, low, itemsPerPage)
            IN  /\ lastValidPage' = last.page
                /\ lastPageItems' = last.items
                /\ totalAuctions' = Estimate(last.page, last.items)
                /\ auctionsText' = "count"
                /\ pc' = "done"
    /\ UNCHANGED <<task, notCountVars, outOfOrder, world, pending, results, rejected, low, high, mid, iter,
                   finalChecks, finalResults, settled, invalidPages>>

----------------------------------------------------------------------------
(* The upstream leaderboard: players are identified by their true global rank
   1..boardSize; consecutive raw pages overlap by one item (app.js:16, 906) *)

\* result of /leaderboard?page=p: up to 45 players starting at the last player
\* of the previous page
RawBoardPage(p) ==
    LET first == (p - 1) * ITEMS_PER_PAGE_OFFSET + 1
        n == Max(0, Min(ITEMS_PER_PAGE, boardSize - first + 1))
    IN  [i \in 1..n |-> first + (i - 1)]

\* result.slice(1)
Slice1(s) == IF Len(s) = 0 THEN s ELSE SubSeq(s, 2, Len(s))

\* lines 906-909: skip first item on pages > 1
Dedup(result, page) == IF page > 1 /\ Len(result) > 0 THEN Slice1(result) ELSE result

\* mutant: the start rank follows the upstream stride of 44
StartRankByOffset(page) == (page - 1) * ITEMS_PER_PAGE_OFFSET + 1

\* line 912: const startRank = page === 1 ? 1 : (page - 1) * ITEMS_PER_PAGE + 1
StartRank(page) == IF page = 1 THEN 1 ELSE (page - 1) * ITEMS_PER_PAGE + 1

\* lines 945-946: result.map((player, index) => rank = startRank + index), index from 0
TableCards(result, page) ==
    [k \in 1..Len(Dedup(result, page)) |->
        [player |-> Dedup(result, page)[k], rank |-> StartRank(page) + (k - 1)]]

\* renderLeaderboardTable(data, type, page) for the next page of the listing
RenderLeaderboardTable ==
    /\ task = "renderLeaderboardTable"
    /\ boardPage < MaxBoardPages
    /\ LET page == boardPage + 1
           result == RawBoardPage(page)
       IN  /\ boardPage' = page
           /\ IF Len(result) = 0
              THEN /\ tableView' = "empty"
                   /\ tableRows' = <<>>
              ELSE /\ tableView' = "cards"
                   /\ tableRows' = TableCards(result, page)
           /\ allRows' = allRows \o tableRows'
    /\ UNCHANGED <<task, notBoardVars, boardSize, expPage, expPodium, expList, expNone,
                   expAll>>

\* line 1915: const rankOffset = (currentPage - 1) * ITEMS_PER_PAGE_OFFSET
RankOffset(page) == (page - 1) * ITEMS_PER_PAGE_OFFSET

\* s.slice(0, n)
SliceTo(s, n) == SubSeq(s, 1, Min(n, Len(s)))

\* s.slice(n)
SliceFrom(s, n) == IF Len(s) <= n THEN <<>> ELSE SubSeq(s, n + 1, Len(s))

\* lines 1921-1924
TopPlayers(players, page) == IF page = 1 THEN SliceTo(players, PodiumSize) ELSE <<>>
RemainingPlayers(players, page) ==
    IF page = 1 THEN SliceFrom(players, PodiumSize) ELSE players

\* lines 1948-1979: the podium is rendered on the first page when it is full;
\* its cards carry the ranks 1, 2, 3
PodiumCards(players, page) ==
    IF page = 1 /\ Len(TopPlayers(players, page)) >= PodiumSize
    THEN [k \in 1..PodiumSize |-> [player |-> TopPlayers(players, page)[k], rank |-> k]]
    ELSE <<>>

\* lines 1988-1990: rank = isFirstPage ? index + 4 : rankOffset + index + 1
ListRows(players, page) ==
    [k \in 1..Len(RemainingPlayers(players, page)) |->
        [player |-> RemainingPlayers(players, page)[k],
         rank |-> IF page = 1 THEN (k - 1) + PodiumSize + 1
                  ELSE RankOffset(page) + (k - 1) + 1]]

\* line 2003: the alternative of the rows
NoPlayersFound(players, page) ==
    /\ Len(RemainingPlayers(players, page)) = 0
    /\ ~(page = 1 /\ Len(TopPlayers(players, page)) > 0)

\* loadLeaderboard() of the expanded view for the next page of the listing,
\* with a successful response
LoadLeaderboard ==
    /\ task = "renderLeaderboardTable"
    /\ expPage < MaxBoardPages
    /\ LET page == expPage + 1
           players == RawBoardPage(page)
       IN  /\ expPage' = page
           /\ expPodium' = PodiumCards(players, page)
           /\ expList' = ListRows(players, page)
           /\ expNone' = NoPlayersFound(players, page)
           /\ expAll' = expAll \o PodiumCards(players, page) \o ListRows(players, page)
    /\ UNCHANGED <<task, notBoardVars, boardSize, boardPage, tableView, tableRows,
                   allRows>>

----------------------------------------------------------------------------
(* Price history and sparklines, app.js:318-410, and createPriceCard,
   app.js:3350-3403.  Time is counted in seconds: the code's milliseconds do
   not fit the checker's integers (30 days = 2 592 000 000 ms). *)

\* 30 * 24 * 60 * 60 * 1000 ms
ThirtyDays == 30 * 24 * 60 * 60

ItemKeys == {"diamond", "emerald"}
RawIds == {"minecraft:diamond", "diamond", "emerald"}
Prices == {0, 100, 150}

\* item.id.replace('minecraft:', '')
StripPrefix(id) == IF id = "minecraft:diamond" THEN "diamond" ELSE id

Missing == [kind |-> "missing", points |-> <<>>]
Corrupt == [kind |-> "corrupt", points |-> <<>>]
Series(points) == [kind |-> "series", points |-> points]

\* mutant: the cap is not applied
LastNKeepAll(s, n) == s

\* history.slice(-100)
LastN(s, n) == IF Len(s) <= n THEN s ELSE SubSeq(s, Len(s) - n + 1, Len(s))

\* history.filter(p => p.time > thirtyDaysAgo) with thirtyDaysAgo = now - 30 days
FilterFresh(history, t) ==
    LET Fresh(p) == p.time > t - ThirtyDays
    IN  SelectSeq(history, Fresh)

\* JSON.parse(localStorage.getItem(key) || '[]') raises: storage access denied,
\* or the stored text is not a JSON array
ParseThrows(st, mode, key) == mode = "denied" \/ st[key].kind = "corrupt"

\* JSON.parse(localStorage.getItem(key) || '[]') when it does not raise
Parsed(st, key) == IF st[key].kind = "series" THEN st[key].points ELSE <<>>

\* localStorage.setItem raises
WriteThrows(mode) == mode \in {"quota", "denied"}

\* storePriceHistory(itemId, price), lines 324-338: [threw, store]
StorePriceHistory(st, mode, key, price, t) ==
    IF ParseThrows(st, mode, key) THEN [threw |-> TRUE, store |-> st]
    ELSE LET history == Append(Parsed(st, key), [time |-> t, price |-> price])
             kept == LastN(FilterFresh(history, t), MAX_POINTS)
         IN  IF WriteThrows(mode) THEN [threw |-> TRUE, store |-> st]
             ELSE [threw |-> FALSE, store |-> [st EXCEPT ![key] = Series(kept)]]

\* getPriceHistory(itemId), lines 343-346: [threw, data]
GetPriceHistory(st, mode, key) ==
    IF ParseThrows(st, mode, key) THEN [threw |-> TRUE, data |-> <<>>]
    ELSE [threw |-> FALSE, data |-> Parsed(st, key)]

\* mutant: the trend class compares the last point with the one before it
GenerateSparklineByPrevious(data) ==
    IF Len(data) < 2 THEN "dash"
    ELSE IF data[Len(data)].price > data[Len(data) - 1].price THEN "sparkline-up"
    ELSE IF data[Len(data)].price < data[Len(data) - 1].price THEN "sparkline-down"
    ELSE "sparkline-neutral"

\* generateSparkline(data), lines 351-391: the neutral dash for fewer than two
\* points, else the trend class of the polyline
GenerateSparkline(data) ==
    IF Len(data) < 2 THEN "dash"
    ELSE IF data[Len(data)].price > data[1].price THEN "sparkline-up"
    ELSE IF data[Len(data)].price < data[1].price THEN "sparkline-down"
    ELSE "sparkline-neutral"

\* x rounded to the nearest integer (ties away from zero), for b > 0
RoundDiv(a, b) ==
    IF a >= 0 THEN (2 * a + b) \div (2 * b) ELSE 0 - ((2 * (0 - a) + b) \div (2 * b))

NoTrend == [has |-> FALSE, tenths |-> 0, direction |-> "none"]

\* mutant: a single point is enough for a trend
CalculatePriceTrendFromOne(data) ==
    IF Len(data) < 1 THEN [has |-> FALSE, tenths |-> 0, direction |-> "none"]
    ELSE IF data[1].price = 0 THEN [has |-> FALSE, tenths |-> 0, direction |-> "none"]
    ELSE [has |-> TRUE,
          tenths |-> 0,
          direction |-> IF data[Len(data)].price > data[1].price THEN "up"
                        ELSE IF data[Len(data)].price < data[1].price THEN "down"
                        ELSE "neutral"]

\* calculatePriceTrend(data), lines 396-410; percentage.toFixed(1) is kept in
\* tenths of a percent
CalculatePriceTrend(data) ==
    IF Len(data) < 2 THEN NoTrend
    ELSE LET firstPrice == data[1].price
             lastPrice == data[Len(data)].price
         IN  IF firstPrice = 0 THEN NoTrend
             ELSE [has |-> TRUE,
                   tenths |-> RoundDiv((lastPrice - firstPrice) * 1000, firstPrice),
                   direction |-> IF lastPrice > firstPrice THEN "up"
                                 ELSE IF lastPrice < firstPrice THEN "down"
                                 ELSE "neutral"]

NoCard == [rendered |-> FALSE, spark |-> "none", trend |-> NoTrend]

\* createPriceCard(item), lines 3350-3403: record, read, sparkline, trend; an
\* exception of storePriceHistory or getPriceHistory leaves the function
CreatePriceCard ==
    /\ task = "createPriceCard"
    /\ calls < MaxCalls
    /\ \E id \in RawIds, median \in Prices :
         LET key == StripPrefix(id)
             rec == StorePriceHistory(store, storageMode, key, median, now)
             got == GetPriceHistory(rec.store, storageMode, key)
         IN  /\ lastKey' = key
             /\ store' = rec.store
             /\ thrown' = (rec.threw \/ got.threw)
             /\ lastRead' = IF rec.threw THEN lastRead ELSE got.data
             /\ card' = IF rec.threw \/ got.threw THEN NoCard
                        ELSE [rendered |-> TRUE,
                              spark |-> GenerateSparkline(got.data),
                              trend |-> CalculatePriceTrend(got.data)]
    /\ calls' = calls + 1
    /\ callNow' = now
    /\ lastOp' = "card"
    /\ UNCHANGED <<task, notHistVars, now, storageMode, ticks>>

\* a call of getPriceHistory(itemId) on its own
ReadHistory ==
    /\ task = "createPriceCard"
    /\ \E key \in ItemKeys :
         LET got == GetPriceHistory(store, storageMode, key)
         IN  /\ lastKey' = key
             /\ thrown' = got.threw
             /\ lastRead' = got.data
    /\ lastOp' = "read"
    /\ UNCHANGED <<task, notHistVars, now, store, storageMode, calls, ticks,
                   callNow, card>>

\* time passes between two calls
Tick ==
    /\ task = "createPriceCard"
    /\ ticks < MaxTicks
    /\ \E d \in {1, ThirtyDays} : now' = now + d
    /\ ticks' = ticks + 1
    /\ UNCHANGED <<task, notHistVars, store, storageMode, calls, lastOp,
                   lastKey, callNow, thrown, lastRead, card>>

----------------------------------------------------------------------------
(* The list views: apiRequest (app.js:655-710), the auction page (2168-2255),
   the transactions page (2260-2311) and the expanded leaderboard (1869-2020) *)

ViewTasks == {"loadAuction", "loadTransactions", "loadLeaderboard"}

\* what the same-origin /api endpoint can answer: no answer at all, an empty or
\* non-JSON body, a result list, or an error object with or without a message
Responses ==
    {[transport |-> "fail", status |-> 0, body |-> "none", message |-> FALSE, n |-> 0]}
        \cup {[transport |-> "ok", status |-> st, body |-> b, message |-> FALSE, n |-> 0] :
                 st \in {200, 500}, b \in {"empty", "html"}}
        \cup {[transport |-> "ok", status |-> 200, body |-> "json", message |-> FALSE, n |-> k] :
                 k \in 0..ITEMS_PER_PAGE}
        \cup {[transport |-> "ok", status |-> st, body |-> "json", message |-> msg, n |-> 0] :
                 st \in {401, 429, 500}, msg \in BOOLEAN}

\* response.ok
ResponseOk(resp) == resp.status >= 200 /\ resp.status <= 299

\* the load failed: transport failure, malformed body or non-OK status
LoadFailed(resp) == resp.transport = "fail" \/ resp.body # "json" \/ ~ResponseOk(resp)

\* mutant: a rate-limited answer is handed to the caller as data
ApiRequestIgnoring429(resp) ==
    IF resp.transport = "fail" \/ resp.body # "json" \/ resp.status = 401
    THEN [threw |-> TRUE, n |-> 0]
    ELSE [threw |-> FALSE, n |-> resp.n]

\* the requests apiRequest issues after the first one: its catch (lines
\* 706-709) logs and rethrows, no path leads back to fetch
Reissues(resp) == 0

\* apiRequest(endpoint, params), lines 671-709: throws, or returns the parsed
\* body, of which the views read (data.result || []).length
ApiRequest(resp) ==
    IF resp.transport = "fail" THEN [threw |-> TRUE, n |-> 0]
    ELSE IF resp.body = "empty" THEN [threw |-> TRUE, n |-> 0]
    ELSE IF resp.body # "json" THEN [threw |-> TRUE, n |-> 0]
    ELSE IF resp.status = 429 THEN [threw |-> TRUE, n |-> 0]
    ELSE IF resp.status = 401 THEN [threw |-> TRUE, n |-> 0]
    ELSE IF ~ResponseOk(resp) /\ resp.message THEN [threw |-> TRUE, n |-> 0]
    ELSE [threw |-> FALSE, n |-> resp.n]

\* const response = await fetch(...); const data = await response.json();
\* const players = data.result || []  (lines 1910-1912)
FetchJson(resp) ==
    IF resp.transport = "fail" \/ resp.body # "json" THEN [threw |-> TRUE, n |-> 0]
    ELSE [threw |-> FALSE, n |-> resp.n]

\* renderAuctionGrid / renderTransactionsList, lines 1295-1307 and 1366-1378
RenderList(n) == IF n = 0 THEN "empty-state" ELSE "list"

\* renderPagination: hasMore = totalItems >= 20
HasMore(n) == n >= HasMoreThreshold

\* loadLeaderboard's template, lines 1921-2003: the podium shows on page 1 with
\* at least 3 players, the list shows the remaining players or 'No players found'
PodiumShown(page, n) == page = 1 /\ n >= PodiumSize
RemainingCount(page, n) == IF page = 1 THEN Max(0, n - PodiumSize) ELSE n
NoPlayersShown(page, n) ==
    RemainingCount(page, n) = 0 /\ ~(page = 1 /\ Min(n, PodiumSize) > 0)

\* loadAuction() / loadTransactions() up to the await, and the spinner shown
\* before loadLeaderboard(); a pagination button click sets currentPage first
StartLoad ==
    /\ task \in ViewTasks
    /\ viewPc = "idle"
    /\ loads < MaxLoads
    /\ \/ /\ loads = 0
          /\ UNCHANGED listPage
       \/ /\ loads > 0
          /\ task \in {"loadAuction", "loadTransactions"}
          /\ pagerPage > 1
          /\ listPage' = pagerPage - 1
       \/ /\ loads > 0
          /\ task \in {"loadAuction", "loadTransactions"}
          /\ pagerPage > 0
          /\ pagerMore
          /\ listPage' = pagerPage + 1
    /\ viewPc' = "loading"
    /\ loads' = loads + 1
    /\ container' = "loading"
    /\ shownCount' = 0
    /\ fetches' = fetches + 1
    /\ UNCHANGED <<task, notViewVars, viewResp, pagerPage, pagerMore>>

\* lines 2192-2214 and 2277-2299: the response arrives
FinishLoadList ==
    /\ task \in {"loadAuction", "loadTransactions"}
    /\ viewPc = "loading"
    /\ \E resp \in Responses :
         LET got == ApiRequest(resp)
         IN  /\ viewResp' = resp
             /\ fetches' = fetches + Reissues(resp)
             /\ IF got.threw
                THEN /\ container' = "error-state"
                     /\ shownCount' = 0
                     /\ UNCHANGED <<pagerPage, pagerMore>>
                ELSE /\ container' = RenderList(got.n)
                     /\ shownCount' = got.n
                     /\ pagerPage' = listPage
                     /\ pagerMore' = HasMore(got.n)
    /\ viewPc' = "idle"
    /\ UNCHANGED <<task, notViewVars, listPage, loads>>

\* lines 1909-2016: the response arrives
FinishLoadLeaderboard ==
    /\ task = "loadLeaderboard"
    /\ viewPc = "loading"
    /\ \E resp \in Responses :
         LET got == FetchJson(resp)
         IN  /\ viewResp' = resp
             /\ IF got.threw
                THEN /\ container' = "error-state"
                     /\ shownCount' = 0
                ELSE /\ container' = IF NoPlayersShown(listPage, got.n)
                                     THEN "empty-state" ELSE "list"
                     /\ shownCount' = (IF PodiumShown(listPage, got.n) THEN PodiumSize ELSE 0)
                                        + RemainingCount(listPage, got.n)
    /\ viewPc' = "idle"
    /\ UNCHANGED <<task, notViewVars, listPage, loads, pagerPage, pagerMore, fetches>>

----------------------------------------------------------------------------
(* The leaderboard rollups: calculateAggregateStatsParallel (app.js:2831-2890)
   and the category grid of initLeaderboardsPage (app.js:1745-1857) *)

StatCategories ==
    <<"money", "shards", "kills", "deaths", "playtime", "placedblocks",
      "brokenblocks", "mobskilled">>

BoardCategories == StatCategories \o <<"shop", "sell">>

RollupTasks == {"calculateAggregateStatsParallel", "initLeaderboardsPage"}

Categories == IF task = "initLeaderboardsPage" THEN BoardCategories ELSE StatCategories

\* parseFloat(String(player.value).replace(/[,$]/g, '')) || 0
ParseValue(v) == IF v.text = "garbage" THEN 0 ELSE v.num

RECURSIVE SumValues(_)
SumValues(values) ==
    IF Len(values) = 0 THEN 0
    ELSE ParseValue(values[1]) + SumValues(SubSeq(values, 2, Len(values)))

\* the per-category promise of calculateAggregateStatsParallel never rejects:
\* .catch(() => ({ result: [] }))
CategoryRejects(resp) == FALSE

\* fetch(...).then(res => res.json()).catch(() => ({ result: [] })), lines 2838-2840
StatsFetch(resp) ==
    IF resp.kind = "neterr" THEN [hasResult |-> TRUE, values |-> <<>>]
    ELSE IF resp.kind = "errbody" THEN [hasResult |-> FALSE, values |-> <<>>]
    ELSE [hasResult |-> TRUE, values |-> resp.values]

\* try { leaderboardData[cat.type] = data.result || [] } catch { ... = [] },
\* lines 1781-1788
BoardFetch(resp) ==
    IF resp.kind \in {"neterr", "errbody"} THEN [hasResult |-> TRUE, values |-> <<>>]
    ELSE [hasResult |-> TRUE, values |-> resp.values]

\* lines 2847-2855: totals[cat] = total * 50 when data && data.result
Total(slot) ==
    IF slot.hasResult
    THEN [has |-> TRUE, value |-> SumValues(slot.values) * ExtrapolationFactor]
    ELSE [has |-> FALSE, value |-> 0]

NotShown == [shown |-> FALSE, value |-> 0, unit |-> ""]

\* updateStatWithAnimation(elementId, value): if (!element || !value) return
StatDisplay(total) ==
    IF total.has /\ total.value # 0
    THEN [shown |-> TRUE, value |-> total.value, unit |-> ""]
    ELSE NotShown

\* lines 2868-2879: the playtime element shows years or days
PlaytimeDisplay(total) ==
    IF total.has /\ total.value # 0
    THEN LET hours == total.value \div MsPerHour
             days == hours \div HoursPerDay
             years == days \div DaysPerYear
         IN  IF years > 0 THEN [shown |-> TRUE, value |-> years, unit |-> "y+"]
             ELSE [shown |-> TRUE, value |-> days, unit |-> "d+"]
    ELSE NotShown

\* lines 1818-1848: the category card lists the top 5 players
GridDisplay(slot) ==
    IF Len(slot.values) > 0
    THEN [shown |-> TRUE, value |-> Min(TopCount, Len(slot.values)), unit |-> "rows"]
    ELSE NotShown

EmptySlot == [hasResult |-> FALSE, values |-> <<>>]

\* the category fetches are issued at once
StartStats ==
    /\ task \in RollupTasks
    /\ statsPc = "start"
    /\ statsPc' = "fetching"
    /\ statsPending' = DOMAIN Categories
    /\ statsSettled' = 0
    /\ responses' = [i \in DOMAIN Categories |-> EmptySlot]
    /\ UNCHANGED <<task, notStatsVars, outOfOrder, catResp, statsRejected, totals, statText>>

\* one category fetch of calculateAggregateStatsParallel settles (in any order)
SettleStats ==
    /\ task = "calculateAggregateStatsParallel"
    /\ statsPc = "fetching"
    /\ ~statsRejected
    /\ \E i \in statsPending :
         LET resp == catResp[Categories[i]]
         IN  /\ outOfOrder' = (outOfOrder \/ \E j \in statsPending : j < i)
             /\ statsPending' = statsPending \ {i}
             /\ statsRejected' = CategoryRejects(resp)
             /\ responses' = [responses EXCEPT
                                ![PromiseAllSlot(i, statsSettled + 1)] = StatsFetch(resp)]
    /\ statsSettled' = statsSettled + 1
    /\ UNCHANGED <<task, notStatsVars, catResp, statsPc, totals, statText>>

\* one category fetch of initLeaderboardsPage settles (in any order) and stores
\* its players under the category's key
SettleBoard ==
    /\ task = "initLeaderboardsPage"
    /\ statsPc = "fetching"
    /\ \E i \in statsPending :
         /\ outOfOrder' = (outOfOrder \/ \E j \in statsPending : j < i)
             /\ statsPending' = statsPending \ {i}
         /\ responses' = [responses EXCEPT ![i] = BoardFetch(catResp[Categories[i]])]
    /\ statsSettled' = statsSettled + 1
    /\ UNCHANGED <<task, notStatsVars, catResp, statsPc, statsRejected, totals, statText>>

\* await Promise.all resumes: the totals are computed and displayed (lines
\* 2844-2879), or the category cards are rendered (lines 1817-1856)
AwaitStats ==
    /\ task \in RollupTasks
    /\ statsPc = "fetching"
    /\ statsPending = {} \/ statsRejected
    /\ IF statsRejected
       THEN /\ statsPc' = "aborted"
            /\ UNCHANGED <<totals, statText>>
       ELSE /\ statsPc' = "done"
            /\ totals' = [c \in Range(Categories) |->
                  LET i == CHOOSE k \in DOMAIN Categories : Categories[k] = c
                  IN  IF task = "initLeaderboardsPage" THEN totals[c]
                      ELSE Total(responses[i])]
            /\ statText' = [c \in Range(Categories) |->
                  LET i == CHOOSE k \in DOMAIN Categories : Categories[k] = c
                  IN  IF task = "initLeaderboardsPage" THEN GridDisplay(responses[i])
                      ELSE IF c = "playtime" THEN PlaytimeDisplay(Total(responses[i]))
                      ELSE StatDisplay(Total(responses[i]))]
    /\ UNCHANGED <<task, notStatsVars, outOfOrder, catResp, statsPending, statsSettled,
                   statsRejected, responses>>

----------------------------------------------------------------------------
(* The prices page: initPricesPage, loadAllPrices, loadRemainingPrices,
   filterAndRenderPrices, renderPrices, changePricesPage (app.js:3152-3438).
   The upstream catalogue holds the items 1..totalItems, upstreamSize to a
   page: the size of an upstream page is the upstream's choice. *)

\* letters are numbers; a capital letter is its lower-case letter plus 100
Lower(l) == IF l >= CapitalShift THEN l - CapitalShift ELSE l

\* text.toLowerCase()
ToLowerCase(text) == [k \in DOMAIN text |-> Lower(text[k])]

\* text.includes(q)
Includes(text, q) ==
    \E k \in 0..(Len(text) - Len(q)) : SubSeq(text, k + 1, k + Len(q)) = q

\* item.name, item.id, item.avg_price, item.listings, item.median_price of the
\* i-th item of the catalogue
ItemName(i) == <<CapitalShift + ((i * 7) % 5), i % 3>>
ItemId(i) == <<MinecraftPrefix, i \div 10, i % 10>>
AvgPrice(i) == ((i * 13) % 7) * 100
Listings(i) == i % 4
MedianPrice(i) == (i % 3) * 50

\* item.id.replace('minecraft:', '') of a catalogue item
ItemKey(i) == IF ItemId(i)[1] = MinecraftPrefix THEN Tail(ItemId(i)) ELSE ItemId(i)

\* pagination.total_pages of the upstream answer
UpstreamPages == Max(1, (totalItems + upstreamSize - 1) \div upstreamSize)

\* the items of upstream page p
UpstreamPage(p) ==
    [k \in 1..Max(0, Min(upstreamSize, totalItems - (p - 1) * upstreamSize)) |->
        (p - 1) * upstreamSize + k]

\* what fetch(`/prices?page=p`) yields
PageResponse(p) == [kind |-> pageFail[p], items |-> UpstreamPage(p)]

\* the promise of one background page never rejects: .catch(() => [])
PageRejects(resp) == FALSE

\* mutant: a failed background page is not caught
PageRejectsOnError(resp) == resp.kind = "neterr"

\* .then(res => res.json()).then(data => data.status === 200 ? data.result : [])
\* .catch(() => [])
RemainingFetch(resp) == IF resp.kind = "ok" THEN resp.items ELSE <<>>

\* results.flat()
RECURSIVE Flat(_)
Flat(res) == IF Len(res) = 0 THEN <<>> ELSE res[1] \o Flat(Tail(res))

SearchTexts == {<<>>, <<CapitalShift + 2>>}
SortKeys == {"name", "avg_high", "avg_low", "listings"}

\* searchInput?.value?.toLowerCase().trim() || ''
SearchQuery(text) == ToLowerCase(text)

\* lines 3275-3282
FilterPrices(all, q) ==
    LET Matches(i) == \/ Includes(ToLowerCase(ItemName(i)), q)
                      \/ Includes(ToLowerCase(ItemId(i)), q)
    IN  IF q # <<>> THEN SelectSeq(all, Matches) ELSE all

\* the position of a name in the collation order of localeCompare, for names
\* of one shape (a capital and a small letter): case does not separate them
NameOrder(i) == Lower(ItemName(i)[1]) * CapitalShift + Lower(ItemName(i)[2])

\* the comparator of lines 3285-3297 is the difference of these numbers: it is
\* negative (a sorts before b) iff SortKey(a) < SortKey(b)
SortKey(i, sortBy) ==
    IF sortBy = "avg_high" THEN 0 - AvgPrice(i)
    ELSE IF sortBy = "avg_low" THEN AvgPrice(i)
    ELSE IF sortBy = "listings" THEN 0 - Listings(i)
    ELSE NameOrder(i)

\* filteredPrices.sort(comparator): Array.prototype.sort is stable, items the
\* comparator does not separate keep their order
SortPrices(seq, sortBy) ==
    LET indexed == [k \in DOMAIN seq |-> <<SortKey(seq[k], sortBy), k, seq[k]>>]
        Earlier(u, v) == u[1] < v[1] \/ (u[1] = v[1] /\ u[2] < v[2])
        sorted == SortSeq(indexed, Earlier)
    IN  [k \in DOMAIN seq |-> sorted[k][3]]

\* pageItems.map(item => createPriceCard(item)): each card records the item's
\* median price and reads the series back; the first exception ends the loop
RECURSIVE RenderCards(_, _, _, _)
RenderCards(items, st, mode, t) ==
    IF Len(items) = 0 THEN [threw |-> FALSE, store |-> st]
    ELSE LET key == ItemKey(items[1])
             rec == StorePriceHistory(st, mode, key, MedianPrice(items[1]), t)
             got == GetPriceHistory(rec.store, mode, key)
         IN  IF rec.threw \/ got.threw THEN [threw |-> TRUE, store |-> rec.store]
             ELSE RenderCards(Tail(items), rec.store, mode, t)

NoPager == [shown |-> FALSE, page |-> 0, total |-> 0]
LoadingView == [kind |-> "loading", items |-> <<>>]
FailedView == [kind |-> "failed", items |-> <<>>]
EmptyView == [kind |-> "empty", items |-> <<>>]

\* Math.ceil(filteredPrices.length / pricesPerPage)
ClientPages(filtered) == (Len(filtered) + pricesPerPage - 1) \div pricesPerPage

\* filteredPrices.slice(startIndex, endIndex)
PageSlice(filtered, page) ==
    LET startIndex == (page - 1) * pricesPerPage
        endIndex == Min(startIndex + pricesPerPage, Len(filtered))
    IN  IF startIndex >= Len(filtered) THEN <<>>
        ELSE SubSeq(filtered, startIndex + 1, endIndex)

\* renderPrices(), lines 3305-3348: [threw, store, view, pager]; view and pager
\* are the given ones when the rendering raised
RenderPrices(filtered, page, st, mode, t, oldView, oldPager) ==
    LET pageItems == PageSlice(filtered, page)
        cards == RenderCards(pageItems, st, mode, t)
    IN  IF Len(pageItems) = 0
        THEN [threw |-> FALSE, store |-> st, view |-> EmptyView, pager |-> NoPager]
        ELSE IF cards.threw
        THEN [threw |-> TRUE, store |-> cards.store, view |-> oldView, pager |-> oldPager]
        ELSE [threw |-> FALSE, store |-> cards.store,
              view |-> [kind |-> "grid", items |-> pageItems],
              pager |-> IF ClientPages(filtered) > 1
                        THEN [shown |-> TRUE, page |-> page,
                              total |-> ClientPages(filtered)]
                        ELSE NoPager]

\* the page filterAndRenderPrices renders: always the first one (line 3300)
ResetPage(current) == 1

AliasesWhenUnfiltered(q) == q = <<>>

\* lines 3275-3282: is filteredPrices the very array allPrices?  Never:
\* allPrices.filter(...) and [...allPrices] both build a new array
Aliases(q) == FALSE

\* filterAndRenderPrices(), lines 3268-3303: [all, filtered, page, threw, store,
\* view, pager]; the sort of line 3285 is in place, so it reorders allPrices
\* too iff filteredPrices is the same array
FilterAndRenderPrices(all, text, sortBy, current, st, mode, t, oldView, oldPager) ==
    LET filtered == SortPrices(FilterPrices(all, SearchQuery(text)), sortBy)
        r == RenderPrices(filtered, ResetPage(current), st, mode, t, oldView, oldPager)
    IN  [all |-> IF Aliases(SearchQuery(text)) THEN filtered ELSE all,
         filtered |-> filtered, page |-> ResetPage(current), threw |-> r.threw,
         store |-> r.store, view |-> r.view, pager |-> r.pager]

\* filterAndRenderPrices() on the page's current state
Rerender(all) ==
    FilterAndRenderPrices(all, searchInput, sortSelect, pricesCurrentPage, store,
                          storageMode, now, pricesView, pricesPager)

priceWorld == <<totalItems, upstreamSize, pageFail>>

\* loadAllPrices() shows the spinner and requests page 1
LoadAllPrices ==
    /\ task = "initPricesPage"
    /\ pricesPc = "start"
    /\ pricesPc' = "loading"
    /\ pricesView' = LoadingView
    /\ UNCHANGED <<task, notPriceVars, store, storageMode, priceWorld, bgPc, bgPending,
                   bgSettled, bgRejected, bgResults, allPrices, filteredPrices,
                   pricesCurrentPage, searchInput, sortSelect, searchTimer,
                   pricesPager, userOps, handlerThrew, outOfOrder>>

\* lines 3195-3228: page 1 arrives; it is stored and rendered and the background
\* batch is issued; an exception of the rendering ends in the catch like a
\* failed fetch. initPricesPage then installs the search and sort handlers.
FirstPageArrives ==
    /\ task = "initPricesPage"
    /\ pricesPc = "loading"
    /\ pricesPc' = "ready"
    /\ LET resp == PageResponse(1)
           far == Rerender(resp.items)
       IN  IF resp.kind = "ok"
           THEN /\ allPrices' = far.all
                /\ filteredPrices' = far.filtered
                /\ pricesCurrentPage' = far.page
                /\ store' = far.store
                /\ IF far.threw
                   THEN /\ pricesView' = FailedView
                        /\ UNCHANGED <<pricesPager, bgPc, bgPending, bgResults>>
                   ELSE /\ pricesView' = far.view
                        /\ pricesPager' = far.pager
                        /\ IF UpstreamPages > 1
                           THEN /\ bgPc' = "fetching"
                                /\ bgPending' = 2..UpstreamPages
                                /\ bgResults' = [k \in 1..(UpstreamPages - 1) |-> <<>>]
                           ELSE UNCHANGED <<bgPc, bgPending, bgResults>>
           ELSE /\ pricesView' = FailedView
                /\ UNCHANGED <<allPrices, filteredPrices, pricesCurrentPage, store,
                               pricesPager, bgPc, bgPending, bgResults>>
    /\ UNCHANGED <<task, notPriceVars, storageMode, priceWorld, bgSettled, bgRejected,
                   searchInput, sortSelect, searchTimer, userOps, handlerThrew,
                   outOfOrder>>

\* one background page request settles (in any order)
SettlePricePage ==
    /\ task = "initPricesPage"
    /\ bgPc = "fetching"
    /\ ~bgRejected
    /\ \E p \in bgPending :
         LET resp == PageResponse(p)
         IN  /\ bgPending' = bgPending \ {p}
             /\ bgRejected' = PageRejects(resp)
             /\ bgResults' = [bgResults EXCEPT
                                ![PromiseAllSlot(p - 1, bgSettled + 1)] = RemainingFetch(resp)]
             /\ outOfOrder' = (outOfOrder \/ \E q \in bgPending : q < p)
    /\ bgSettled' = bgSettled + 1
    /\ UNCHANGED <<task, notPriceVars, store, storageMode, priceWorld, pricesPc, bgPc,
                   allPrices, filteredPrices, pricesCurrentPage, searchInput,
                   sortSelect, searchTimer, pricesView, pricesPager, userOps,
                   handlerThrew>>

\* lines 3244-3255: await Promise.all resumes; the pages are flattened in slot
\* order, appended to allPrices and the list is filtered, sorted and rendered
\* again. An exception (a rejected batch, a rendering that raised) is logged.
AwaitRemaining ==
    /\ task = "initPricesPage"
    /\ bgPc = "fetching"
    /\ bgPending = {} \/ bgRejected
    /\ IF bgRejected
       THEN /\ bgPc' = "aborted"
            /\ UNCHANGED <<allPrices, filteredPrices, pricesCurrentPage, store,
                           pricesView, pricesPager>>
       ELSE LET additionalItems == Flat(bgResults)
                far == Rerender(allPrices \o additionalItems)
            IN  /\ bgPc' = "merged"
                /\ IF Len(additionalItems) > 0
                   THEN /\ allPrices' = far.all
                        /\ filteredPrices' = far.filtered
                        /\ pricesCurrentPage' = far.page
                        /\ store' = far.store
                        /\ pricesView' = far.view
                        /\ pricesPager' = far.pager
                   ELSE UNCHANGED <<allPrices, filteredPrices, pricesCurrentPage, store,
                                    pricesView, pricesPager>>
    /\ UNCHANGED <<task, notPriceVars, storageMode, priceWorld, pricesPc, bgPending,
                   bgSettled, bgRejected, bgResults, searchInput, sortSelect,
                   searchTimer, userOps, handlerThrew, outOfOrder>>

\* the user edits the search box; once the handlers are installed the edit
\* arms the 300 ms debounce timer (line 3170)
TypeSearch ==
    /\ task = "initPricesPage"
    /\ pricesPc # "start"
    /\ userOps < MaxUserOps
    /\ \E text \in SearchTexts \ {searchInput} : searchInput' = text
    /\ searchTimer' = (pricesPc = "ready")
    /\ userOps' = userOps + 1
    /\ UNCHANGED <<task, notPriceVars, store, storageMode, priceWorld, pricesPc, bgPc,
                   bgPending, bgSettled, bgRejected, bgResults, allPrices,
                   filteredPrices, pricesCurrentPage, sortSelect, pricesView,
                   pricesPager, handlerThrew, outOfOrder>>

\* the debounce timer fires: filterAndRenderPrices()
SearchFires ==
    /\ task = "initPricesPage"
    /\ searchTimer
    /\ searchTimer' = FALSE
    /\ LET far == Rerender(allPrices)
       IN  /\ allPrices' = far.all
           /\ filteredPrices' = far.filtered
           /\ pricesCurrentPage' = far.page
           /\ store' = far.store
           /\ pricesView' = far.view
           /\ pricesPager' = far.pager
           /\ handlerThrew' = far.threw
    /\ UNCHANGED <<task, notPriceVars, storageMode, priceWorld, pricesPc, bgPc,
                   bgPending, bgSettled, bgRejected, bgResults,
                   searchInput, sortSelect, userOps, outOfOrder>>

\* the user picks a sort key; once the handler is installed (line 3177) the
\* change runs filterAndRenderPrices()
SortChange ==
    /\ task = "initPricesPage"
    /\ pricesPc # "start"
    /\ userOps < MaxUserOps
    /\ userOps' = userOps + 1
    /\ \E key \in SortKeys \ {sortSelect} :
         LET far == FilterAndRenderPrices(allPrices, searchInput, key,
                        pricesCurrentPage, store, storageMode, now, pricesView,
                        pricesPager)
         IN  /\ sortSelect' = key
             /\ IF pricesPc = "ready"
                THEN /\ allPrices' = far.all
                     /\ filteredPrices' = far.filtered
                     /\ pricesCurrentPage' = far.page
                     /\ store' = far.store
                     /\ pricesView' = far.view
                     /\ pricesPager' = far.pager
                     /\ handlerThrew' = far.threw
                ELSE UNCHANGED <<allPrices, filteredPrices, pricesCurrentPage, store,
                                 pricesView, pricesPager, handlerThrew>>
    /\ UNCHANGED <<task, notPriceVars, storageMode, priceWorld, pricesPc, bgPc,
                   bgPending, bgSettled, bgRejected, bgResults,
                   searchInput, searchTimer, outOfOrder>>

PageBelowRange(page, filtered) == page < 1

\* line 3431: if (page < 1 || page > totalPages) return
PageOutOfRange(page, filtered) == page < 1 \/ page > ClientPages(filtered)

\* changePricesPage(page), lines 3429-3438
ChangePricesPage ==
    /\ task = "initPricesPage"
    /\ pricesPc = "ready"
    /\ userOps < MaxUserOps
    /\ userOps' = userOps + 1
    /\ \E page \in 0..(ClientPages(filteredPrices) + 1) :
         LET r == RenderPrices(filteredPrices, page, store, storageMode, now,
                               pricesView, pricesPager)
         IN  IF PageOutOfRange(page, filteredPrices)
             THEN UNCHANGED <<pricesCurrentPage, store, pricesView, pricesPager,
                              handlerThrew>>
             ELSE /\ pricesCurrentPage' = page
                  /\ store' = r.store
                  /\ pricesView' = r.view
                  /\ pricesPager' = r.pager
                  /\ handlerThrew' = r.threw
    /\ UNCHANGED <<task, notPriceVars, storageMode, priceWorld, pricesPc, bgPc,
                   bgPending, bgSettled, bgRejected, bgResults, allPrices,
                   filteredPrices, searchInput, sortSelect, searchTimer, outOfOrder>>

\* the origin's localStorage reaches its quota: setItem raises from now on
StorageFills ==
    /\ task = "initPricesPage"
    /\ storageMode = "ok"
    /\ storageMode' = "quota"
    /\ UNCHANGED <<task, notPriceVars, store, priceVars, outOfOrder>>

----------------------------------------------------------------------------
(* makeApiRequest, api/config.js:11-67.  Time advances in steps of a tenth of
   the timeout; the upstream may answer at any time, or never. *)

TimeStep == REQUEST_TIMEOUT \div 10
MaxElapsed == 2 * REQUEST_TIMEOUT

UpstreamStatuses == {200, 401, 404, 429, 500}

NoResult == [success |-> FALSE, status |-> 0, message |-> "none"]

\* lines 46-56: the result for an AbortError
TimeoutResult == [success |-> FALSE, status |-> 500, message |-> "Request timeout"]

\* lines 57-65: the result for any other exception
FailedResult == [success |-> FALSE, status |-> 500, message |-> "Request failed"]

\* lines 40-44: { success: response.ok, status: response.status, data }
ParsedResult(status) ==
    [success |-> (status >= 200 /\ status <= 299), status |-> status, message |-> "data"]

notReqVars == <<estVars, boardVars, histVars, viewVars, statsVars, priceVars, outOfOrder, aucVars>>

\* lines 28-34: the timer is armed and the fetch is issued
IssueRequest ==
    /\ task = "makeApiRequest"
    /\ reqPc = "start"
    /\ reqPc' = "fetching"
    /\ timer' = "armed"
    /\ elapsed' = 0
    /\ reqFetches' = reqFetches + 1
    /\ UNCHANGED <<task, notReqVars, reqResult>>

\* time passes while the call is suspended in an await; an armed timer does not
\* let its deadline pass
TimePasses ==
    /\ task = "makeApiRequest"
    /\ reqPc \in {"fetching", "reading"}
    /\ elapsed + TimeStep <= MaxElapsed
    /\ timer = "armed" => elapsed + TimeStep <= REQUEST_TIMEOUT
    /\ elapsed' = elapsed + TimeStep
    /\ UNCHANGED <<task, notReqVars, reqPc, timer, reqResult, reqFetches>>

\* line 29: the timer fires, controller.abort() rejects the pending fetch with
\* an AbortError, the catch resolves the call (lines 46-56)
TimeoutFires ==
    /\ task = "makeApiRequest"
    /\ reqPc = "fetching"
    /\ timer = "armed"
    /\ elapsed = REQUEST_TIMEOUT
    /\ timer' = "fired"
    /\ reqPc' = "done"
    /\ reqResult' = TimeoutResult
    /\ UNCHANGED <<task, notReqVars, elapsed, reqFetches>>

\* lines 31-36: the response headers arrive, fetch resolves and the timer is
\* cleared; the body is still to be read
HeadersArrive ==
    /\ task = "makeApiRequest"
    /\ reqPc = "fetching"
    /\ timer = "armed"
    /\ timer' = "cleared"
    /\ reqPc' = "reading"
    /\ UNCHANGED <<task, notReqVars, elapsed, reqResult, reqFetches>>

\* line 31: fetch rejects (connection error); clearTimeout is skipped, the
\* timer stays armed but its abort finds nothing to abort; the catch resolves
\* the call (lines 57-65)
FetchRejects ==
    /\ task = "makeApiRequest"
    /\ reqPc = "fetching"
    /\ reqPc' = "done"
    /\ reqResult' = FailedResult
    /\ UNCHANGED <<task, notReqVars, elapsed, timer, reqFetches>>

\* lines 38-44: the body has arrived and parsed, or failed to parse (lines 57-65)
BodyRead ==
    /\ task = "makeApiRequest"
    /\ reqPc = "reading"
    /\ reqPc' = "done"
    /\ \/ \E status \in UpstreamStatuses : reqResult' = ParsedResult(status)
       \/ reqResult' = FailedResult
    /\ UNCHANGED <<task, notReqVars, elapsed, timer, reqFetches>>

----------------------------------------------------------------------------
(* The auction page: initAuctionPage, app.js:2168-2255, with the auto-refresh
   of app.js:273-315.  Every loadAuction() call issues one fetchAuction request
   with the closure's parameters of that moment; the requests in flight are
   answered in any order. *)

AuctionSearches == {"", "sword"}
AuctionSorts == {"", "lowest_price"}

notAucVars == <<estVars, boardVars, histVars, viewVars, statsVars, priceVars, outOfOrder,
                reqVars>>

NoAuctionView == [kind |-> "none", seq |-> 0, page |-> 0, search |-> "", sort |-> ""]
NoPagination == [shown |-> FALSE, page |-> 0, more |-> FALSE]

\* loadAuction(showLoading) up to its await (lines 2187-2193) with the closure's
\* parameters as given
LoadAuction(showLoading, page, search, sort) ==
    /\ issued' = issued + 1
    /\ inFlight' = inFlight \cup
          {[seq |-> issued + 1, page |-> page, search |-> search, sort |-> sort]}
    /\ auctionView' = IF showLoading
                      THEN [kind |-> "loading", seq |-> issued + 1, page |-> page,
                            search |-> search, sort |-> sort]
                      ELSE auctionView

\* line 2254: the initial load, after the handlers have been installed
AuctionInitialLoad ==
    /\ task = "initAuctionPage"
    /\ issued = 0
    /\ LoadAuction(TRUE, currentPage, currentSearch, currentSort)
    /\ UNCHANGED <<task, notAucVars, currentPage, currentSearch, currentSort, pagination>>

\* lines 2229-2236: the debounced search handler fires
AuctionSearch ==
    /\ task = "initAuctionPage"
    /\ issued > 0
    /\ issued < MaxIssued
    /\ \E text \in AuctionSearches \ {currentSearch} :
         /\ currentSearch' = text
         /\ currentPage' = 1
         /\ LoadAuction(TRUE, 1, text, currentSort)
    /\ UNCHANGED <<task, notAucVars, currentSort, pagination>>

\* lines 2240-2246: the sort handler
AuctionSort ==
    /\ task = "initAuctionPage"
    /\ issued > 0
    /\ issued < MaxIssued
    /\ \E key \in AuctionSorts \ {currentSort} :
         /\ currentSort' = key
         /\ currentPage' = 1
         /\ LoadAuction(TRUE, 1, currentSearch, key)
    /\ UNCHANGED <<task, notAucVars, currentSearch, pagination>>

\* lines 2202-2211: a click on an enabled pagination button; the buttons stay
\* in the pagination container while the container shows the spinner
AuctionPageClick ==
    /\ task = "initAuctionPage"
    /\ issued < MaxIssued
    /\ pagination.shown
    /\ \E target \in {pagination.page - 1, pagination.page + 1} :
         /\ target = pagination.page - 1 => pagination.page > 1
         /\ target = pagination.page + 1 => pagination.more
         /\ target <= MaxAuctionPage
         /\ currentPage' = target
         /\ LoadAuction(TRUE, target, currentSearch, currentSort)
    /\ UNCHANGED <<task, notAucVars, currentSearch, currentSort, pagination>>

\* lines 303-315 and 2249-2251: the auto-refresh timer fires; the soft refresh
\* is dispatched unless the container shows the loading screen
AuctionSoftRefresh ==
    /\ task = "initAuctionPage"
    /\ issued > 0
    /\ issued < MaxIssued
    /\ auctionView.kind # "loading"
    /\ LoadAuction(FALSE, currentPage, currentSearch, currentSort)
    /\ UNCHANGED <<task, notAucVars, currentPage, currentSearch, currentSort, pagination>>

\* lines 2193-2215: one request in flight is answered; its loadAuction call
\* resumes and renders the grid and the pagination (for the closure's
\* currentPage of now), or the error state
AuctionResponse ==
    /\ task = "initAuctionPage"
    /\ \E req \in inFlight, ok \in BOOLEAN, more \in BOOLEAN :
         /\ inFlight' = inFlight \ {req}
         /\ IF ok
            THEN /\ auctionView' = [kind |-> "grid", seq |-> req.seq, page |-> req.page,
                                    search |-> req.search, sort |-> req.sort]
                 /\ pagination' = [shown |-> TRUE, page |-> currentPage, more |-> more]
            ELSE /\ ~more
                 /\ auctionView' = [kind |-> "error", seq |-> req.seq, page |-> req.page,
                                    search |-> req.search, sort |-> req.sort]
                 /\ UNCHANGED pagination
    /\ UNCHANGED <<task, notAucVars, currentPage, currentSearch, currentSort, issued>>

----------------------------------------------------------------------------
(* Initial states *)

\* last-page item counts the simulated resource is tried with
LastCounts == {1, itemsPerPage \div 2, itemsPerPage}

\* true last pages the failure plans are tried with
FailLastPages == {0, 45, 100, 320, 2499, 2600}

FailIds ==
    {<<"coarse", i>> : i \in DOMAIN checkPages}
        \cup {<<"binary", k>> : k \in 1..MaxFailIter}
        \cup {<<"fine", i>> : i \in 1..(FineSpan \div FineStep + 1)}

RECURSIVE PlansOf(_)
PlansOf(n) ==
    IF n = 0 THEN {{}}
    ELSE PlansOf(n - 1) \cup {S \cup {id} : S \in PlansOf(n - 1), id \in FailIds}

InitWorld ==
    /\ \/ /\ trueLast \in 1..MaxT
          /\ trueCount \in LastCounts
          /\ failing = {}
          /\ failKind = "neterr"
       \/ /\ trueLast = 0
          /\ trueCount = 0
          /\ failing = {}
          /\ failKind = "neterr"
       \/ /\ trueLast \in FailLastPages
          /\ trueCount = IF trueLast = 0 THEN 0 ELSE itemsPerPage \div 2
          /\ failing \in PlansOf(MaxFail) \ {{}}
          /\ failKind \in {"neterr", "errbody"}

InitCount ==
    /\ pc = "start"
    /\ pending = {}
    /\ results = <<>>
    /\ rejected = FALSE
    /\ low = DefaultLow
    /\ high = DefaultHigh
    /\ mid = 0
    /\ iter = 0
    /\ finalChecks = <<>>
    /\ finalResults = <<>>
    /\ settled = 0
    /\ invalidPages = {}
    /\ lastValidPage = 0
    /\ lastPageItems = 0
    /\ totalAuctions = 0
    /\ auctionsText = ""

\* the world of a behaviour that does not run the estimator
IdleWorld ==
    /\ trueLast = 0
    /\ trueCount = 0
    /\ failing = {}
    /\ failKind = "neterr"

InitBoard ==
    /\ boardPage = 0
    /\ tableView = "none"
    /\ tableRows = <<>>
    /\ allRows = <<>>
    /\ expPage = 0
    /\ expPodium = <<>>
    /\ expList = <<>>
    /\ expNone = FALSE
    /\ expAll = <<>>

\* the clock when the page opens
Now0 == 2 * ThirtyDays

\* a series of n points, one second apart, the oldest of age `oldest`
StoredSeries(n, oldest) ==
    [i \in 1..n |-> [time |-> Now0 - oldest + (i - 1), price |-> ((i + 1) % 3) * 50]]

\* what the store may hold for an item when the page opens: nothing, text
\* that is no series, a series this code wrote (at most 100 fresh points when it
\* was written, possibly aged since), or one another writer left
StoredLens == (1..MaxShort) \cup ((MAX_POINTS - 1)..MaxStored)

InitStored ==
    {Missing, Corrupt}
        \cup {Series(StoredSeries(n, n)) : n \in StoredLens}
        \cup {Series(StoredSeries(n, ThirtyDays + n \div 2)) : n \in StoredLens}

InitHist ==
    /\ now = Now0
    /\ calls = 0
    /\ ticks = 0
    /\ lastOp = "none"
    /\ lastKey = "diamond"
    /\ callNow = Now0
    /\ thrown = FALSE
    /\ lastRead = <<>>
    /\ card = NoCard

IdleHist ==
    /\ InitHist
    /\ store = [k \in ItemKeys |-> Missing]
    /\ storageMode = "ok"

\* the page-1 values the upstream holds for the i-th category: a number, a
\* number formatted with commas, and text that is no number
CatValues(i) ==
    <<[num |-> 20000000 + i, text |-> "number"],
      [num |-> 2 * i, text |-> "comma"],
      [num |-> 7, text |-> "garbage"]>>

OkResp(i) == [kind |-> "ok", values |-> CatValues(i)]

\* the ways one category can answer abnormally: rejected fetch or unparseable
\* body, an error object without result, an empty result
OddResps ==
    {[kind |-> "neterr", values |-> <<>>],
     [kind |-> "errbody", values |-> <<>>],
     [kind |-> "ok", values |-> <<>>]}

\* the answers to the categories cats of which at most n are abnormal
RECURSIVE CatWorlds(_, _)
CatWorlds(n, cats) ==
    IF n = 0 THEN {[i \in DOMAIN BoardCategories |-> OkResp(i)]}
    ELSE CatWorlds(n - 1, cats) \cup
         {[w EXCEPT ![i] = r] : w \in CatWorlds(n - 1, cats), i \in DOMAIN cats,
                               r \in OddResps}

InitStats ==
    /\ statsPc = "start"
    /\ statsPending = {}
    /\ statsSettled = 0
    /\ statsRejected = FALSE
    /\ responses = <<>>
    /\ totals = [c \in Range(BoardCategories) |-> [has |-> FALSE, value |-> 0]]
    /\ statText = [c \in Range(BoardCategories) |-> NotShown]

IdleStats ==
    /\ InitStats
    /\ catResp = [c \in Range(BoardCategories) |-> [kind |-> "ok", values |-> <<>>]]

\* the sizes of the upstream catalogue: empty, one item, one page and one item,
\* and three pages
\* a full upstream page is as long as a client page, or one item longer
UpstreamSizes == {pricesPerPage, pricesPerPage + 1}

PriceTotals == {0, 1, pricesPerPage + 1, MaxCatalogue}

MaxUpstreamPages == (MaxCatalogue + pricesPerPage - 1) \div pricesPerPage

RECURSIVE PagePlans(_)
PagePlans(n) ==
    IF n = 0 THEN {[p \in 1..MaxUpstreamPages |-> "ok"]}
    ELSE PagePlans(n - 1) \cup
         {[w EXCEPT ![p] = k] : w \in PagePlans(n - 1), p \in 1..MaxUpstreamPages,
                               k \in {"neterr", "errbody"}}

InitPrices ==
    /\ pricesPc = "start"
    /\ bgPc = "idle"
    /\ bgPending = {}
    /\ bgSettled = 0
    /\ bgRejected = FALSE
    /\ bgResults = <<>>
    /\ allPrices = <<>>
    /\ filteredPrices = <<>>
    /\ pricesCurrentPage = 1
    /\ searchInput = <<>>
    /\ sortSelect = "name"
    /\ searchTimer = FALSE
    /\ pricesView = [kind |-> "none", items |-> <<>>]
    /\ pricesPager = NoPager
    /\ userOps = 0
    /\ handlerThrew = FALSE
    /\ outOfOrder = FALSE

\* lines 2177-2181: the parameters come from the URL
InitAuctionPage ==
    /\ currentPage = 1
    /\ currentSearch = ""
    /\ currentSort = ""
    /\ issued = 0
    /\ inFlight = {}
    /\ auctionView = NoAuctionView
    /\ pagination = NoPagination

InitReq ==
    /\ reqPc = "start"
    /\ elapsed = 0
    /\ timer = "idle"
    /\ reqResult = NoResult
    /\ reqFetches = 0

IdlePrices ==
    /\ InitPrices
    /\ InitReq
    /\ InitAuctionPage
    /\ totalItems = 0
    /\ upstreamSize = pricesPerPage
    /\ pageFail = [p \in 1..MaxUpstreamPages |-> "ok"]

NoResponse == [transport |-> "none", status |-> 0, body |-> "none", message |-> FALSE, n |-> 0]

InitView ==
    /\ viewPc = "idle"
    /\ loads = 0
    /\ container = "none"
    /\ shownCount = 0
    /\ viewResp = NoResponse
    /\ pagerPage = 0
    /\ pagerMore = FALSE
    /\ fetches = 0

IdleView ==
    /\ InitView
    /\ listPage = 1

\* the estimator's page before the first probe, whatever the upstream holds
InitCountPage ==
    /\ task = "loadAuctionCount"
    /\ InitCount
    /\ boardSize = 0
    /\ InitBoard
    /\ IdleHist
    /\ IdleView
    /\ IdleStats
    /\ IdlePrices

InitCountTask ==
    /\ InitWorld
    /\ InitCountPage

\* parseInt(params.get('page')) || 1
InitViewTask ==
    /\ task \in ViewTasks
    /\ IdleWorld
    /\ InitCount
    /\ boardSize = 0
    /\ InitBoard
    /\ IdleHist
    /\ InitView
    /\ listPage \in 1..MaxListPage
    /\ IdleStats
    /\ IdlePrices

InitCardTask ==
    /\ task = "createPriceCard"
    /\ IdleWorld
    /\ InitCount
    /\ boardSize = 0
    /\ InitBoard
    /\ InitHist
    /\ IdleView
    /\ IdleStats
    /\ IdlePrices
    /\ \/ /\ storageMode = "ok"
          /\ \E v \in InitStored : store = [k \in ItemKeys |-> IF k = "diamond" THEN v ELSE Missing]
       \/ /\ storageMode = "quota"
          /\ \E v \in {Missing, Series(StoredSeries(1, 1)), Series(StoredSeries(2, 2))} :
                store = [k \in ItemKeys |-> IF k = "diamond" THEN v ELSE Missing]
       \/ /\ storageMode = "denied"
          /\ store = [k \in ItemKeys |-> Missing]

InitBoardTask ==
    /\ task = "renderLeaderboardTable"
    /\ IdleWorld
    /\ InitCount
    /\ boardSize \in 0..MaxPlayers
    /\ InitBoard
    /\ IdleHist
    /\ IdleView
    /\ IdleStats
    /\ IdlePrices

InitStatsTask ==
    /\ task \in RollupTasks
    /\ IdleWorld
    /\ InitCount
    /\ boardSize = 0
    /\ InitBoard
    /\ IdleHist
    /\ IdleView
    /\ InitStats
    /\ IdlePrices
    /\ \E w \in CatWorlds(MaxCatFail, Categories) :
          catResp = [c \in Range(BoardCategories) |->
                       w[CHOOSE k \in DOMAIN BoardCategories : BoardCategories[k] = c]]

InitPricesTask ==
    /\ task = "initPricesPage"
    /\ IdleWorld
    /\ InitCount
    /\ boardSize = 0
    /\ InitBoard
    /\ InitHist
    /\ IdleView
    /\ IdleStats
    /\ InitPrices
    /\ InitReq
    /\ InitAuctionPage
    /\ totalItems \in PriceTotals
    /\ upstreamSize \in UpstreamSizes
    /\ pageFail \in PagePlans(MaxPageFail)
    /\ store = [k \in {ItemKey(i) : i \in 1..MaxCatalogue} |-> Missing]
    /\ storageMode \in {"ok", "quota"}

InitRequestTask ==
    /\ task = "makeApiRequest"
    /\ IdleWorld
    /\ InitCount
    /\ boardSize = 0
    /\ InitBoard
    /\ IdleHist
    /\ IdleView
    /\ IdleStats
    /\ IdlePrices

InitAuctionTask ==
    /\ task = "initAuctionPage"
    /\ IdleWorld
    /\ InitCount
    /\ boardSize = 0
    /\ InitBoard
    /\ IdleHist
    /\ IdleView
    /\ IdleStats
    /\ IdlePrices

Init ==
    \/ InitAuctionTask
    \/ InitRequestTask
    \/ InitCountTask
    \/ InitBoardTask
    \/ InitCardTask
    \/ InitViewTask
    \/ InitStatsTask
    \/ InitPricesTask

NextCount == StartCount \/ SettleCoarse \/ AwaitCoarse \/ BinaryStep \/ SettleFine \/ AwaitFine

NextBoard == RenderLeaderboardTable \/ LoadLeaderboard

NextCard == CreatePriceCard \/ ReadHistory \/ Tick

NextView == StartLoad \/ FinishLoadList \/ FinishLoadLeaderboard

NextStats == StartStats \/ SettleStats \/ SettleBoard \/ AwaitStats

NextPrices ==
    \/ LoadAllPrices
    \/ FirstPageArrives
    \/ SettlePricePage
    \/ AwaitRemaining
    \/ TypeSearch
    \/ SearchFires
    \/ SortChange
    \/ ChangePricesPage
    \/ StorageFills

NextRequest ==
    \/ IssueRequest
    \/ TimePasses
    \/ TimeoutFires
    \/ HeadersArrive
    \/ FetchRejects
    \/ BodyRead

NextAuction ==
    \/ AuctionInitialLoad
    \/ AuctionSearch
    \/ AuctionSort
    \/ AuctionPageClick
    \/ AuctionSoftRefresh
    \/ AuctionResponse

Next ==
    \/ NextAuction
    \/ NextCount \/ NextBoard \/ NextCard \/ NextView \/ NextStats \/ NextPrices
    \/ NextRequest

Spec == Init /\ [][Next]_vars

SpecCount == InitCountTask /\ [][NextCount]_vars

SpecBoard == InitBoardTask /\ [][NextBoard]_vars

SpecCard == InitCardTask /\ [][NextCard]_vars

SpecView == InitViewTask /\ [][NextView]_vars

SpecStats == InitStatsTask /\ [][NextStats]_vars

SpecPrices == InitPricesTask /\ [][NextPrices]_vars

SpecRequest == InitRequestTask /\ [][NextRequest]_vars

SpecAuction == InitAuctionTask /\ [][NextAuction]_vars

\* the three batches of concurrent requests: the estimator's probes under the
\* failure plans, the category fetches of the statistics rollup, the
\* background price pages
InitBatchWorld ==
    /\ trueLast \in FailLastPages
    /\ trueCount = IF trueLast = 0 THEN 0 ELSE itemsPerPage \div 2
    /\ failing \in PlansOf(MaxFail)
    /\ failKind \in {"neterr", "errbody"}

InitBatch ==
    \/ /\ InitBatchWorld
       /\ InitCountPage
    \/ /\ InitStatsTask
       /\ task = "calculateAggregateStatsParallel"
    \/ InitPricesTask

NextBatch ==
    \/ NextCount
    \/ StartStats
    \/ SettleStats
    \/ AwaitStats
    \/ NextPrices

SpecBatch == InitBatch /\ [][NextBatch]_vars

SpecRollup == (InitStatsTask \/ InitPricesTask) /\ [][NextStats \/ NextPrices]_vars

----------------------------------------------------------------------------
(* Claims about the size estimator *)

Abs(x) == IF x < 0 THEN 0 - x ELSE x

\* C1: for a static resource with true last page T >= 1 and last-page count C and
\* no failing probe, the estimate is within one fine-phase step (10 pages of 44
\* items) of (T-1)*44 + C, and equals it when T is a page of the fine phase.
C1_Convergence ==
    (pc = "done" /\ failing = {} /\ trueLast >= 1) =>
        /\ Abs(totalAuctions - TrueTotal) <= FineStep * itemsPerPage
        /\ trueLast \in Range(finalChecks) => totalAuctions = TrueTotal

\* the same statement for the resources whose last page lies below the last
\* coarse page plus one fine step
C1_ConvergenceBelowCoarse ==
    (pc = "done" /\ failing = {} /\ trueLast >= 1
        /\ trueLast <= checkPages[Len(checkPages)] + FineStep) =>
        /\ Abs(totalAuctions - TrueTotal) <= FineStep * itemsPerPage
        /\ trueLast \in Range(finalChecks) => totalAuctions = TrueTotal

\* C6: a coarse or binary probe that errors or returns zero items is classified
\* invalid; high is only ever set to such a page, and low stays below every such
\* page.
C6_ProbeFailureConservative ==
    /\ \A p \in invalidPages : low < p
    /\ high = DefaultHigh \/ high \in invalidPages
    /\ pc \in {"coarse", "binary", "fine", "done"} =>
         \A i \in DOMAIN results \ (IF pc = "coarse" THEN pending ELSE {}) :
            results[i].page \in invalidPages => ~results[i].valid

C6_Witness ==
    /\ pc = "fine"
    /\ \E id \in failing : id[1] = "binary" /\ id[2] <= iter
    /\ high \in invalidPages
    /\ low > DefaultLow

\* the coarse batch has settled and low, high are as the coarse scan left them
CoarseDone ==
    /\ task = "loadAuctionCount"
    /\ (pc = "binary" /\ iter = 1) \/ (pc = "fine" /\ iter = 0)

ValidProbed == {results[i].page : i \in {j \in DOMAIN results : results[j].valid}}
InvalidProbed == {results[i].page : i \in {j \in DOMAIN results : ~results[j].valid}}

\* C18: when the coarse probes have settled, low is the largest probed page
\* classified valid (1 if there is none), high is the smallest probed page
\* classified invalid that is larger than low, or, when all six probes are
\* valid, a bound larger than every probed page; and low < high.
C18_CoarseResult ==
    CoarseDone =>
        /\ low = IF ValidProbed = {} THEN DefaultLow
                 ELSE CHOOSE p \in ValidProbed : \A q \in ValidProbed : q <= p
        /\ LET above == {p \in InvalidProbed : p > low}
           IN  IF above = {} THEN \A p \in Range(checkPages) : high > p
               ELSE high = CHOOSE p \in above : \A q \in above : p <= q
        /\ low < high

\* C19: the lastValidPage of a finished estimate is the largest page whose
\* fine probe returned a non-empty result, and lastPageItems is the number of
\* items that probe returned.
C19_FinalPageObserved ==
    (task = "loadAuctionCount" /\ pc = "done") =>
        \E k \in DOMAIN finalResults :
            /\ finalResults[k].page = lastValidPage
            /\ finalResults[k].count > 0
            /\ finalResults[k].count = lastPageItems
            /\ \A j \in DOMAIN finalResults :
                  finalResults[j].count > 0 => finalResults[j].page <= lastValidPage

\* C20: once the narrowing has ended (high - low <= 50) the fine phase probes
\* exactly the pages low, low+10, ..., low+60, all requested before any of
\* them settles.
C20_FineCoverage ==
    (task = "loadAuctionCount" /\ pc = "fine") =>
        /\ high - low <= BinaryGap
        /\ finalChecks = [k \in 1..(FineSpan \div FineStep + 1) |-> low + FineStep * (k - 1)]
        /\ (settled = 0 /\ ~rejected) => pending = DOMAIN finalChecks

\* the least k with 2^k >= n
RECURSIVE Log2Ceil(_)
Log2Ceil(n) == IF n <= 1 THEN 0 ELSE 1 + Log2Ceil((n + 1) \div 2)

\* the range the coarse scan hands to the binary loop
InitialRange ==
    CoarseScan(results, 1, DefaultLow, DefaultHigh).high
        - CoarseScan(results, 1, DefaultLow, DefaultHigh).low

\* C21: whenever the binary loop runs (high - low > 50) its midpoint lies
\* strictly between low and high, so every iteration strictly shrinks
\* high - low whatever the probe returns; the number of iterations is at most
\* log2 of the initial range, and the loop is left with high - low <= 50.
C21_BinaryTerminates ==
    /\ [](task = "loadAuctionCount" =>
            /\ pc = "binary" => (high - low > BinaryGap /\ low < mid /\ mid < high)
            /\ pc \in {"binary", "fine", "done"} =>
                  iter <= Log2Ceil(Max(InitialRange, 1))
            /\ pc \in {"fine", "done"} => high - low <= BinaryGap)
    /\ [][(task = "loadAuctionCount" /\ pc = "binary") =>
             (high' - low' < high - low /\ high' - low' > 0)]_vars

\* the loop has run four times, one of its probes failed, and it has ended
C21_Witness ==
    /\ task = "loadAuctionCount"
    /\ pc = "fine"
    /\ iter = 4
    /\ \E id \in failing : id[1] = "binary"
    /\ high - low <= BinaryGap

\* C25: for a static resource whose page p is non-empty iff p <= T (T >= 0),
\* with full pages of 44 items, C items on the last page and no failing probe,
\* the estimate never exceeds the true item count (T-1)*44 + C (0 when T = 0).
C25_NeverOverestimates ==
    (task = "loadAuctionCount" /\ pc = "done" /\ failing = {}) =>
        totalAuctions <= TrueTotal

\* the same statement for the non-empty resources of fewer than 2500 pages
C25_NeverOverestimatesInRange ==
    (task = "loadAuctionCount" /\ pc = "done" /\ failing = {}
        /\ trueLast >= 1 /\ trueLast < checkPages[Len(checkPages)]) =>
        totalAuctions <= TrueTotal

\* the probe requests that have been issued and have not settled
OutstandingProbes ==
    IF pc = "binary" THEN 1 + Cardinality(pending)
    ELSE IF pc \in {"coarse", "fine"} /\ ~rejected THEN Cardinality(pending)
    ELSE 0

\* C22: during the binary narrowing at most one probe is outstanding, no coarse
\* probe is still outstanding when a midpoint is probed, and each midpoint is
\* computed from the low and high that the previous probe's result left: the
\* next probe is issued only when the previous one has moved low or high to
\* the previous midpoint.
C22_BinarySequential ==
    /\ [](task = "loadAuctionCount" =>
            (pc = "binary" =>
                /\ OutstandingProbes = 1
                /\ pending = {}
                /\ mid = Midpoint(low, high)))
    /\ [][(task = "loadAuctionCount" /\ pc = "binary" /\ pc' = "binary") =>
             /\ (low' = mid /\ high' = high) \/ (low' = low /\ high' = mid)
             /\ mid' = Midpoint(low', high')
             /\ iter' = iter + 1]_vars

\* the third midpoint is being probed: the first result moved high, the
\* second moved low
C22_Witness ==
    /\ task = "loadAuctionCount"
    /\ pc = "binary"
    /\ iter = 3
    /\ low \notin Range(checkPages) \cup {DefaultLow}
    /\ high \notin Range(checkPages)
    /\ OutstandingProbes = 1

----------------------------------------------------------------------------
(* Claims about the leaderboard table *)

\* C2: the ranks given to the de-duplicated entries of pages 1..N, read in page
\* order, are 1, 2, 3, ... with no gap and no repeat across page boundaries.
C2_RanksConsecutive ==
    (\A p \in 1..boardPage : Len(RawBoardPage(p)) = ITEMS_PER_PAGE) =>
        \A k \in DOMAIN allRows : allRows[k].rank = k

\* the same statement for the first two pages only, which the code satisfies
C2_RanksConsecutiveTwoPages ==
    boardPage <= 2 => \A k \in DOMAIN allRows : allRows[k].rank = k

\* C14: the card at 0-indexed position i of the de-duplicated page p carries rank
\* i + 1 when p = 1 and (p - 1) * 45 + i + 1 when p > 1; a 45-entry page 1 runs
\* from rank 1 to rank 45; of a 45-entry page 2 the 44 entries after the first
\* remain and the first of them carries rank 46.
C14_RankFormula ==
    (boardPage >= 1 /\ tableView = "cards") =>
        /\ \A k \in DOMAIN tableRows :
              tableRows[k].rank = IF boardPage = 1 THEN (k - 1) + 1
                                  ELSE (boardPage - 1) * 45 + (k - 1) + 1
        /\ (boardPage = 1 /\ Len(RawBoardPage(1)) = 45) =>
              /\ Len(tableRows) = 45
              /\ tableRows[1].rank = 1
              /\ tableRows[45].rank = 45
              /\ \A k \in 1..45 : tableRows[k].player = RawBoardPage(1)[k]
        /\ (boardPage = 2 /\ Len(RawBoardPage(2)) = 45) =>
              /\ Len(tableRows) = 44
              /\ tableRows[1].rank = 46
              /\ \A k \in 1..44 : tableRows[k].player = RawBoardPage(2)[k + 1]

C14_Witness ==
    /\ boardPage = 2
    /\ tableView = "cards"
    /\ Len(RawBoardPage(2)) = 45
    /\ Len(tableRows) = 44
    /\ tableRows[1].rank = 46

\* no player is displayed twice in a sequence of cards
ShownOnce(cards) ==
    \A i, j \in DOMAIN cards : cards[i].player = cards[j].player => i = j

\* C24: both ranked views drop the first item of a raw page p > 1, so that over
\* the pages 1..N the player shared by two consecutive raw pages is displayed
\* on only one of them: by renderLeaderboardTable and by the expanded view.
C24_OverlapDroppedEverywhere ==
    (task = "renderLeaderboardTable") =>
        /\ ShownOnce(allRows)
        /\ ShownOnce(expAll)
        /\ expPage > 1 =>
              \A k \in DOMAIN expList : expList[k].player # RawBoardPage(expPage)[1]

\* the part of C24 that is about renderLeaderboardTable
C24_OverlapDroppedInTable ==
    (task = "renderLeaderboardTable") => ShownOnce(allRows)

\* the cards and rows of the expanded view's last page
ExpandedShown == expPodium \o expList

\* C29: on the same page p, a player displayed by both views carries the same
\* rank in renderLeaderboardTable and in the expanded leaderboard.
C29_RanksAgree ==
    (task = "renderLeaderboardTable" /\ boardPage = expPage) =>
        \A i \in DOMAIN tableRows, j \in DOMAIN ExpandedShown :
            tableRows[i].player = ExpandedShown[j].player =>
                tableRows[i].rank = ExpandedShown[j].rank

\* the same statement for the first two pages, where the strides 45 and 44
\* have not drifted apart yet
C29_RanksAgreeTwoPages ==
    (task = "renderLeaderboardTable" /\ boardPage = expPage /\ expPage <= 2) =>
        \A i \in DOMAIN tableRows, j \in DOMAIN ExpandedShown :
            tableRows[i].player = ExpandedShown[j].player =>
                tableRows[i].rank = ExpandedShown[j].rank

\* C30: of a successful response with n players the expanded view renders each
\* player exactly once, in the podium or in the list, and renders 'No players
\* found' iff n = 0.
C30_EveryPlayerShown ==
    (task = "renderLeaderboardTable" /\ expPage >= 1) =>
        /\ \A i \in DOMAIN RawBoardPage(expPage) :
              Cardinality({j \in DOMAIN ExpandedShown :
                              ExpandedShown[j].player = RawBoardPage(expPage)[i]}) = 1
        /\ Len(ExpandedShown) = Len(RawBoardPage(expPage))
        /\ expNone <=> (Len(RawBoardPage(expPage)) = 0)

----------------------------------------------------------------------------
(* Claims about the price history store *)

\* the points of the stored series of the last call's item
StoredPoints == IF store[lastKey].kind = "series" THEN store[lastKey].points ELSE <<>>

HistoryBounded ==
    /\ Len(StoredPoints) <= MAX_POINTS
    /\ \A i \in DOMAIN StoredPoints : callNow - StoredPoints[i].time <= ThirtyDays

C4_RecordNeverRaises ==
    lastOp = "card" =>
        /\ ~thrown
        /\ card.rendered
        /\ (storageMode # "ok" \/ store[lastKey].kind = "corrupt") =>
              (card.spark = "dash" /\ ~card.trend.has)

\* C5: getPriceHistory returns only points whose age is at most 30 days, whoever
\* wrote the series and whether or not a record call pruned it before.
C5_ReadFiltersAge ==
    (lastOp = "read" /\ ~thrown) =>
        \A i \in DOMAIN lastRead : now - lastRead[i].time <= ThirtyDays

\* the age prune of the reference: a point goes iff it is older than 30 days
RefPrune(history, t) ==
    LET Kept(p) == ~(t - p.time > ThirtyDays)
    IN  SelectSeq(history, Kept)

\* the series the reference leaves for a call at time t
RefRecord(previous, price, t) ==
    LastN(RefPrune(Append(previous, [time |-> t, price |-> price]), t), MAX_POINTS)

\* C23: storePriceHistory(itemId, price) at time now leaves the item's series
\* equal to the previous series with {now, price} appended, minus exactly the
\* points older than 30 days (a point exactly 30 days old is kept), truncated
\* to its newest 100 points, in the same order and with the new point last.
C23_RecordReference ==
    [][(task = "createPriceCard" /\ calls' = calls + 1) =>
          \E price \in Prices :
              store'[lastKey'] = Series(RefRecord(Parsed(store, lastKey'), price, now))]_vars

\* the same statement for the calls that returned normally
C23_RecordReferenceAfterWrite ==
    [][(task = "createPriceCard" /\ calls' = calls + 1 /\ ~thrown') =>
          \E price \in Prices :
              store'[lastKey'] = Series(RefRecord(Parsed(store, lastKey'), price, now))]_vars

----------------------------------------------------------------------------
(* Claims about the trend estimator *)

\* the series the last createPriceCard call handed to generateSparkline and
\* calculatePriceTrend
CardSeries == lastOp = "card" /\ card.rendered

FirstPrice == lastRead[1].price
LastPrice == lastRead[Len(lastRead)].price

\* C11: on a series of at least 2 points whose first price is 0 neither
\* calculatePriceTrend nor the trend indicator of generateSparkline reports a
\* direction or a percentage; on a non-zero first price the percentage is
\* (last - first) / first * 100 (kept in tenths).
C11_ZeroFirstPriceNoTrend ==
    (CardSeries /\ Len(lastRead) >= 2) =>
        IF FirstPrice = 0
        THEN /\ ~card.trend.has
             /\ card.spark \notin {"sparkline-up", "sparkline-down"}
        ELSE /\ card.trend.has
             /\ card.trend.tenths = RoundDiv((LastPrice - FirstPrice) * 1000, FirstPrice)

RecordOnEmpty == lastOp' = "card" /\ calls' = calls + 1 /\ store[lastKey'].kind = "missing"

\* the neutral result: no trend, the flat glyph
NeutralResult == card'.spark = "dash" /\ ~card'.trend.has

----------------------------------------------------------------------------
(* Claims about the list views *)

Loaded == task \in ViewTasks /\ viewPc = "idle" /\ loads > 0

\* C7: on the auction, transactions and expanded-leaderboard views every failed
\* load (transport failure, malformed body, non-OK response with or without a
\* message) shows the error indicator, and the 'no data' indicator shows only for
\* a successful response whose result list is empty.
C7_ErrorNeverEmpty ==
    Loaded =>
        /\ LoadFailed(viewResp) => container = "error-state"
        /\ container = "empty-state" => (~LoadFailed(viewResp) /\ viewResp.n = 0)

\* the part of C7 the code satisfies on the auction and transactions views: a
\* failure that apiRequest raises (transport, empty or unparseable body, 401, 429,
\* non-OK with a message) shows the error indicator
C7_RaisedErrorsShown ==
    (Loaded /\ task # "loadLeaderboard" /\ ApiRequest(viewResp).threw) =>
        container = "error-state"

\* the answer makes apiRequest fail: no answer, an empty or unparseable body,
\* status 429 or 401
MustRaise(resp) ==
    \/ resp.transport = "fail"
    \/ resp.body \in {"empty", "html"}
    \/ resp.status \in {429, 401}

\* C15: every call of apiRequest issues exactly one network request, and when
\* the transport fails, the body is empty or unparseable, or the status is 429
\* or 401, the call raises to its caller: no data is rendered, the caller's
\* error branch runs, and no second request is made.
C15_ApiRequestRaisesOnce ==
    (task \in {"loadAuction", "loadTransactions"}) =>
        /\ fetches = loads
        /\ (viewPc = "idle" /\ loads > 0 /\ MustRaise(viewResp)) =>
              (container = "error-state" /\ shownCount = 0)

C15_Witness ==
    /\ task = "loadAuction"
    /\ viewPc = "idle"
    /\ loads = 1
    /\ fetches = 1
    /\ viewResp.status = 429
    /\ container = "error-state"

----------------------------------------------------------------------------
(* Claims about the prices page *)

\* C17: filterAndRenderPrices never changes allPrices.  A search or a sort by
\* any key leaves allPrices with the same elements in the same order; the two
\* loads that call it leave allPrices as they set it (page 1 as received, then
\* the earlier items followed by the background pages); only filteredPrices
\* is reordered.
C17_FilterSortPure ==
    [][/\ (pricesPc = "ready" /\ bgPc' = bgPc) => allPrices' = allPrices
       /\ (pricesPc = "loading" /\ pricesPc' = "ready" /\ PageResponse(1).kind = "ok")
             => allPrices' = PageResponse(1).items
       /\ (bgPc = "fetching" /\ bgPc' = "merged")
             => allPrices' = allPrices \o Flat(bgResults)]_vars

\* a sort by another key than the name has run and has put the whole list in
\* another order than the accumulated one
C17_Witness ==
    /\ task = "initPricesPage"
    /\ pricesPc = "ready"
    /\ userOps > 0
    /\ sortSelect # "name"
    /\ Len(filteredPrices) = Len(allPrices)
    /\ Len(allPrices) > 1
    /\ filteredPrices # allPrices

\* C27: pricesCurrentPage changes only by changePricesPage, or goes back to 1
\* by a change of the search query or of the sort key; when the background
\* batch is merged the user stays on the client-side page they are on.
C27_BackgroundKeepsPage ==
    [][(task = "initPricesPage" /\ pricesCurrentPage' # pricesCurrentPage) =>
          \/ searchTimer /\ ~searchTimer'
          \/ sortSelect' # sortSelect
          \/ userOps' = userOps + 1 /\ filteredPrices' = filteredPrices]_vars

----------------------------------------------------------------------------
(* Claims about the auction page *)

\* C26: when every loadAuction request has been answered, whatever the order
\* of the answers, the container shows the response to the request issued
\* last, which is the one for the current page, search and sort.
C26_NoStaleOverwrite ==
    (task = "initAuctionPage" /\ issued > 0 /\ inFlight = {}) =>
        /\ auctionView.seq = issued
        /\ auctionView.page = currentPage
        /\ auctionView.search = currentSearch
        /\ auctionView.sort = currentSort

----------------------------------------------------------------------------
(* Claims about makeApiRequest *)

\* C16: a call of makeApiRequest is bounded by the 30 s timeout for the whole
\* duration of the request, from the fetch until the body is parsed: it is
\* never still pending after more than REQUEST_TIMEOUT; a timeout resolves the
\* call with success false and the message 'Request timeout'; the call never
\* rejects and issues one request only.
C16_TimeoutBoundsRequest ==
    (task = "makeApiRequest") =>
        /\ reqPc \in {"fetching", "reading"} => elapsed <= REQUEST_TIMEOUT
        /\ reqPc = "done" => elapsed <= REQUEST_TIMEOUT
        /\ timer = "fired" => (reqPc = "done" /\ reqResult = TimeoutResult)
        /\ reqPc = "done" => reqResult # NoResult
        /\ reqFetches <= 1

\* the parts of C16 that do not involve the body: the timeout result, no
\* rejection, no retry
C16_TimeoutResolves ==
    (task = "makeApiRequest") =>
        /\ reqPc = "fetching" => elapsed <= REQUEST_TIMEOUT
        /\ timer = "fired" => (reqPc = "done" /\ reqResult = TimeoutResult)
        /\ reqPc = "done" => reqResult # NoResult
        /\ reqFetches <= 1

----------------------------------------------------------------------------
(* Claims about the batches of concurrent requests *)

\* the coarse results with every probe's value at its own index
RefCoarse ==
    [i \in DOMAIN checkPages |->
        CoarseProbe(checkPages[i], Fetch(<<"coarse", i>>, checkPages[i]))]

\* the binary narrowing run to its end from lo, hi after it iterations
RECURSIVE RefBinary(_, _, _)
RefBinary(lo, hi, it) ==
    IF LoopCond(lo, hi)
    THEN IF MidValid(Fetch(<<"binary", it + 1>>, Midpoint(lo, hi)))
         THEN RefBinary(Midpoint(lo, hi), hi, it + 1)
         ELSE RefBinary(lo, Midpoint(lo, hi), it + 1)
    ELSE [low |-> lo, high |-> hi]

RefRange ==
    RefBinary(CoarseScan(RefCoarse, 1, DefaultLow, DefaultHigh).low,
              CoarseScan(RefCoarse, 1, DefaultLow, DefaultHigh).high, 0)

\* the fine results of the pages checks with every probe's value at its own index
RefFine(checks) ==
    [k \in DOMAIN checks |-> FineProbe(checks[k], Fetch(<<"fine", k>>, checks[k]))]

\* the estimate as a function of what each page returns
RefTotal ==
    LET last == FineScan(RefFine(FineChecks(RefRange.low, RefRange.high)), 1,
                         RefRange.low, itemsPerPage)
    IN  Estimate(last.page, last.items)

\* the items of the background pages 2..N in page-number order
RefRemaining ==
    Flat([k \in 1..(UpstreamPages - 1) |-> RemainingFetch(PageResponse(k + 1))])

\* C8: whatever the order in which the requests of a batch complete, the
\* estimator's totalAuctions is the value determined by what each page returns,
\* each category's total is the one of that category's own response, and
\* allPrices is page 1 followed by the pages 2..N in page-number order.
C8_OrderIndependent ==
    /\ pc = "done" => totalAuctions = RefTotal
    /\ (task = "calculateAggregateStatsParallel" /\ statsPc = "done") =>
          \A c \in Range(StatCategories) : totals[c] = Total(StatsFetch(catResp[c]))
    /\ bgPc = "merged" => allPrices = UpstreamPage(1) \o RefRemaining

C8_Witness ==
    /\ bgPc = "merged"
    /\ outOfOrder
    /\ UpstreamPages >= 3
    /\ Len(allPrices) = totalItems

\* C9: the estimator leaves the coarse phase only when every coarse probe has
\* settled and computes the estimate only when every fine probe has settled,
\* allPrices is extended only when every background page has settled; no batch
\* is ever rejected, and at the barrier every request's own value is in hand.
C9_BatchBarrier ==
    [][/\ (pc = "coarse" /\ pc' # "coarse") =>
            (pending = {} /\ pc' \in {"binary", "fine"} /\ results = RefCoarse)
       /\ (pc = "fine" /\ pc' # "fine") =>
            (pending = {} /\ pc' = "done" /\ finalResults = RefFine(finalChecks))
       /\ (pricesPc = "ready" /\ allPrices' # allPrices) =>
            (/\ bgPc = "fetching"
             /\ bgPending = {}
             /\ bgSettled = UpstreamPages - 1
             /\ allPrices' = allPrices \o RefRemaining)
       /\ pc' # "failed"
       /\ bgPc' # "aborted"]_vars

C9_Witness ==
    /\ pc = "done"
    /\ failKind = "neterr"
    /\ \E id \in failing : id[1] = "fine" /\ id[2] \in DOMAIN finalChecks
    /\ lastValidPage > low

\* C10: a category or background page whose fetch fails contributes nothing,
\* and every other category's total (50 times the sum of its page-1 values)
\* and every other page's items are computed and shown; no rollup is aborted.
C10_FailureIsolated ==
    /\ statsPc # "aborted"
    /\ bgPc # "aborted"
    /\ (task = "calculateAggregateStatsParallel" /\ statsPc = "done") =>
          \A c \in Range(StatCategories) :
             IF catResp[c].kind = "ok"
             THEN /\ totals[c].has
                  /\ totals[c].value = ExtrapolationFactor * SumValues(catResp[c].values)
                  /\ statText[c].shown = (totals[c].value # 0)
                  /\ (statText[c].shown /\ c # "playtime") =>
                        statText[c].value = totals[c].value
             ELSE /\ totals[c].value = 0
                  /\ ~statText[c].shown
    /\ (task = "initLeaderboardsPage" /\ statsPc = "done") =>
          \A c \in Range(BoardCategories) :
             IF catResp[c].kind = "ok"
             THEN statText[c] = GridDisplay([values |-> catResp[c].values])
             ELSE ~statText[c].shown
    /\ (bgPc = "merged" /\ userOps = 0
          /\ \E p \in 2..UpstreamPages : pageFail[p] # "ok") =>
          /\ \A p \in 1..UpstreamPages :
                IF pageFail[p] = "ok"
                THEN Range(UpstreamPage(p)) \subseteq Range(allPrices)
                ELSE Range(UpstreamPage(p)) \cap Range(allPrices) = {}
          /\ Range(filteredPrices) = Range(allPrices)
          /\ pricesView.kind = "grid"
          /\ pricesView.items = PageSlice(filteredPrices, pricesCurrentPage)

\* C10, while localStorage accepts writes: the same isolation, the rendering of
\* the merged list included
C10_FailureIsolatedWhileStorageWorks ==
    (task # "initPricesPage" \/ storageMode = "ok") => C10_FailureIsolated

====
